---------------------------- MODULE Spec2Model ----------------------------
(***************************************************************************)
(* Model of the airline risk engine of Lessee-Risk-Intelligence:           *)
(*   - lib/risk-model.ts          scoreToRiskBucket, normalizeScore        *)
(*   - lib/sources/risk-sources   the jurisdiction, scale and asset        *)
(*                                liquidity evaluators                     *)
(*   - lib/sources/financial.ts   the financial evaluator                  *)
(*   - lib/risk-aggregator.ts     calculateAirlineRisk                     *)
(*   - lib/portfolio-risk.ts      calculatePortfolioRisk (multi-currency)  *)
(*   - lib/scenario-calculator.ts calculateScenarioRisk, called from the   *)
(*                                ScenarioAnalysis component               *)
(*                                                                         *)
(* JavaScript numbers are modelled as exact rationals [n, d] in lowest     *)
(* terms (d > 0); the value null is the record with d = 0.  IEEE rounding  *)
(* error of the double arithmetic is therefore not modelled; Math.round    *)
(* is modelled exactly (round half up).                                    *)
(***************************************************************************)
EXTENDS Integers, Sequences, FiniteSets, TLC

VARIABLES
    enabled,              \* RiskSource.enabled of each source, by key
    fundamentals,         \* what getFundamentalsForTicker answers for this airline
    context,              \* the RiskContext handed to calculateAirlineRisk
    aggPc,                \* position in calculateAirlineRisk: "loop" | "done" | "rejected"
    srcIdx,               \* index of the next source of enabledRiskSources
    allComponents,        \* key -> ComponentScore, for the sources evaluated so far
    breakdown,            \* the breakdown array
    missingComponents,    \* display names of the sources with null score
    totalWeightedScore,   \* running sum of score * weight
    totalAvailableWeight, \* running sum of the weights of available sources
    riskResult,           \* the RiskResult returned, or NoResult
    rejection,            \* the error the call was rejected with, or NoRejection
    portfolios,           \* the stored portfolios: id -> exposures, as the query returns them
    portfolioRisk,        \* id -> what calculatePortfolioRisk(id) returned, or NotCalled
    scenarioInput,        \* the ScenarioInput of the latest simulation
    scenarioResult,       \* what calculateScenarioRisk returned for it, or NoScenario
    scenarioMemory,       \* the arrays and row objects in memory after that call
    normalizeInput,       \* the arguments of a call of normalizeScore
    normalizeOutcome,     \* what that call did: the number returned or the error raised
    financialInput,       \* the FinancialFundamentals of a call of computeFinancialRisk
    financialOutcome,     \* the score that call returned, or NoScore
    clock,                \* new Date().getTime(): milliseconds since the start
    airlineRow,           \* whether the airline table holds the row of the airline
    riskSnapshots,        \* the airlineRiskSnapshot rows of the airline, as inserted
    calls,                \* caller -> its call of getOrCalculateAirlineRisk
    cachedRisk            \* what getCachedRiskSnapshot returned, or NotRead

aggVars == <<enabled, fundamentals, context, aggPc, srcIdx, allComponents,
             breakdown, missingComponents, totalWeightedScore,
             totalAvailableWeight, riskResult, rejection>>

pfVars == <<portfolios, portfolioRisk>>

scVars == <<scenarioInput, scenarioResult, scenarioMemory>>

nmVars == <<normalizeInput, normalizeOutcome>>

fnVars == <<financialInput, financialOutcome>>

cacheVars == <<clock, airlineRow, riskSnapshots, calls, cachedRisk>>

-----------------------------------------------------------------------------
(* Exact arithmetic standing for JavaScript numbers *)

Abs(x) == IF x < 0 THEN -x ELSE x

RECURSIVE GCD(_, _)
GCD(a, b) == IF b = 0 THEN a ELSE GCD(b, a % b)

\* the number n/d (d > 0) in lowest terms
Rat(n, d) ==
    LET g == GCD(Abs(n), d)
    IN  [n |-> n \div g, d |-> d \div g]

Num(i) == [n |-> i, d |-> 1]

\* the JavaScript value null in a numeric position
Null == [n |-> 0, d |-> 0]

IsNull(x) == x.d = 0

RAdd(a, b) == Rat(a.n * b.d + b.n * a.d, a.d * b.d)
RSub(a, b) == Rat(a.n * b.d - b.n * a.d, a.d * b.d)
RMul(a, b) == Rat(a.n * b.n, a.d * b.d)
\* a / b for b > 0
RDiv(a, b) == Rat(a.n * b.d, a.d * b.n)
RLt(a, b)  == a.n * b.d < b.n * a.d
RLe(a, b)  == a.n * b.d <= b.n * a.d
RMin(a, b) == IF RLe(a, b) THEN a ELSE b
RMax(a, b) == IF RLe(a, b) THEN b ELSE a

\* Math.round(x * k) / k : Math.round rounds half up, floor(y + 1/2)
RoundTo(x, k) == Rat((2 * x.n * k + x.d) \div (2 * x.d), k)

-----------------------------------------------------------------------------
(* lib/risk-model.ts *)

DEFAULT_RISK_CONFIG ==
    [cacheDurationMinutes |-> 60,
     bucketThresholds |-> [lowMax |-> 40, mediumMax |-> 70]]

scoreToRiskBucket(score, config) ==
    IF RLe(score, Num(config.bucketThresholds.lowMax)) THEN "Low"
    ELSE IF RLe(score, Num(config.bucketThresholds.mediumMax)) THEN "Medium"
    ELSE "High"

\* the JavaScript value NaN
NaN == [n |-> 0, d |-> -1]

\* (value - min) / (max - min) for max # min
Ratio(value, min, max) ==
    IF RLt(min, max)
    THEN RDiv(RSub(value, min), RSub(max, min))
    ELSE RDiv(RSub(min, value), RSub(min, max))

\* (value - min) / (max - min) * 100 clamped by Math.max(0, Math.min(100, .)):
\* with max = min the quotient is NaN for 0 / 0 and +Infinity or -Infinity
\* otherwise; Math.min and Math.max return NaN for a NaN argument
ClampedRatio(value, min, max) ==
    IF max = min
    THEN IF value = min THEN NaN
         ELSE IF RLt(min, value) THEN Num(100) ELSE Num(0)
    ELSE RMax(Num(0), RMin(Num(100), RMul(Ratio(value, min, max), Num(100))))

\* the variant without the clamp to [0, 100] for max # min
normalizeScoreUnclamped(value, min, max, invert) ==
    LET normalized == IF max = min THEN ClampedRatio(value, min, max)
                      ELSE RMul(Ratio(value, min, max), Num(100))
    IN  IF normalized = NaN THEN NaN
        ELSE IF invert THEN RSub(Num(100), normalized) ELSE normalized

normalizeScore(value, min, max, invert) ==
    LET normalized == ClampedRatio(value, min, max)
    IN  IF normalized = NaN THEN NaN
        ELSE IF invert THEN RSub(Num(100), normalized) ELSE normalized

\* no call of normalizeScore has been made
NoOutcome == [called |-> FALSE, returned |-> Null, raised |-> "none"]

\* normalizeScore is not being called
NormalizeIdle ==
    /\ normalizeInput = [value |-> Num(0), min |-> Num(0), max |-> Num(100),
                         invert |-> FALSE]
    /\ normalizeOutcome = NoOutcome

\* a call of normalizeScore: the function has no throw statement and returns
\* the number it computed
CallNormalizeScore ==
    /\ ~normalizeOutcome.called
    /\ normalizeOutcome' =
          [called |-> TRUE,
           returned |-> normalizeScore(normalizeInput.value, normalizeInput.min,
                                       normalizeInput.max, normalizeInput.invert),
           raised |-> "none"]
    /\ UNCHANGED normalizeInput
    /\ UNCHANGED aggVars
    /\ UNCHANGED pfVars
    /\ UNCHANGED scVars
    /\ UNCHANGED fnVars
    /\ UNCHANGED cacheVars

-----------------------------------------------------------------------------
(* lib/sources/financialApi.ts *)

\* getTickerFromIcao answers null for a private or unlisted airline
NullTicker == "null"

\* the rows of the icaoToTicker table for the airlines of the model
icaoToTicker ==
    [icao \in {"AAL", "UAE"} |-> IF icao = "AAL" THEN "AAL" ELSE NullTicker]

getTickerFromIcao(icao) ==
    IF icao \in DOMAIN icaoToTicker THEN icaoToTicker[icao] ELSE NullTicker

\* getFundamentalsForTicker answered null
NoFundamentals ==
    [debtToEquity |-> Null, profitMargin |-> Null, cashToDebt |-> Null,
     dataSource |-> "none"]

\* getMockFinancialData("AAL")
MockAAL ==
    [debtToEquity |-> Rat(525, 100), profitMargin |-> Rat(288, 100),
     cashToDebt |-> Rat(29, 100), dataSource |-> "mock"]

-----------------------------------------------------------------------------
(* lib/sources/financial.ts *)

\* the variant whose liquidity bands exclude their lower limits
computeFinancialRiskStrictLiquidity(f) ==
    LET debtToEquity == f.debtToEquity
        profitMargin == f.profitMargin
        cashToDebt   == f.cashToDebt
        debtRisk ==
            IF RLt(debtToEquity, Num(1)) THEN Num(0)
            ELSE IF RLt(debtToEquity, Num(2)) THEN Num(20)
            ELSE IF RLt(debtToEquity, Num(3)) THEN Num(40)
            ELSE IF RLt(debtToEquity, Num(5)) THEN Num(70)
            ELSE RMin(Num(100),
                      RAdd(Num(90), RMul(RSub(debtToEquity, Num(5)), Num(5))))
        profitRisk ==
            IF RLt(profitMargin, Num(0))
            THEN RMin(Num(100),
                      RAdd(Num(80), RMul(RSub(Num(0), profitMargin), Num(5))))
            ELSE IF RLt(profitMargin, Num(2))
            THEN RSub(Num(60), RMul(profitMargin, Num(10)))
            ELSE IF RLt(profitMargin, Num(5))
            THEN RSub(Num(40), RMul(RSub(profitMargin, Num(2)), Rat(667, 100)))
            ELSE IF RLt(profitMargin, Num(10))
            THEN RSub(Num(20), RMul(RSub(profitMargin, Num(5)), Num(3)))
            ELSE RMax(Num(0),
                      RSub(Num(5), RMul(RSub(profitMargin, Num(10)), Rat(1, 2))))
        liquidityRisk ==
            IF RLt(Num(1), cashToDebt) THEN Num(0)
            ELSE IF RLt(Rat(1, 2), cashToDebt) THEN Num(20)
            ELSE IF RLt(Rat(3, 10), cashToDebt) THEN Num(40)
            ELSE IF RLt(Rat(1, 10), cashToDebt) THEN Num(70)
            ELSE Num(90)
        overallRisk ==
            RAdd(RAdd(RMul(debtRisk, Rat(4, 10)), RMul(profitRisk, Rat(4, 10))),
                 RMul(liquidityRisk, Rat(2, 10)))
    IN  RoundTo(RMax(Num(0), RMin(Num(100), overallRisk)), 10)

computeFinancialRisk(f) ==
    LET debtToEquity == f.debtToEquity
        profitMargin == f.profitMargin
        cashToDebt   == f.cashToDebt
        debtRisk ==
            IF RLt(debtToEquity, Num(1)) THEN Num(0)
            ELSE IF RLt(debtToEquity, Num(2)) THEN Num(20)
            ELSE IF RLt(debtToEquity, Num(3)) THEN Num(40)
            ELSE IF RLt(debtToEquity, Num(5)) THEN Num(70)
            ELSE RMin(Num(100),
                      RAdd(Num(90), RMul(RSub(debtToEquity, Num(5)), Num(5))))
        profitRisk ==
            IF RLt(profitMargin, Num(0))
            THEN RMin(Num(100),
                      RAdd(Num(80), RMul(RSub(Num(0), profitMargin), Num(5))))
            ELSE IF RLt(profitMargin, Num(2))
            THEN RSub(Num(60), RMul(profitMargin, Num(10)))
            ELSE IF RLt(profitMargin, Num(5))
            THEN RSub(Num(40), RMul(RSub(profitMargin, Num(2)), Rat(667, 100)))
            ELSE IF RLt(profitMargin, Num(10))
            THEN RSub(Num(20), RMul(RSub(profitMargin, Num(5)), Num(3)))
            ELSE RMax(Num(0),
                      RSub(Num(5), RMul(RSub(profitMargin, Num(10)), Rat(1, 2))))
        liquidityRisk ==
            IF RLe(Num(1), cashToDebt) THEN Num(0)
            ELSE IF RLe(Rat(1, 2), cashToDebt) THEN Num(20)
            ELSE IF RLe(Rat(3, 10), cashToDebt) THEN Num(40)
            ELSE IF RLe(Rat(1, 10), cashToDebt) THEN Num(70)
            ELSE Num(90)
        overallRisk ==
            RAdd(RAdd(RMul(debtRisk, Rat(4, 10)), RMul(profitRisk, Rat(4, 10))),
                 RMul(liquidityRisk, Rat(2, 10)))
    IN  RoundTo(RMax(Num(0), RMin(Num(100), overallRisk)), 10)

\* computeFinancialRisk has not been called
NoScore == [called |-> FALSE, score |-> Null]

\* computeFinancialRisk is not being called
FinancialIdle ==
    /\ financialInput = MockAAL
    /\ financialOutcome = NoScore

\* a call of computeFinancialRisk on the fundamentals
CallComputeFinancialRisk ==
    /\ ~financialOutcome.called
    /\ financialOutcome' = [called |-> TRUE,
                            score |-> computeFinancialRisk(financialInput)]
    /\ UNCHANGED financialInput
    /\ UNCHANGED aggVars
    /\ UNCHANGED pfVars
    /\ UNCHANGED scVars
    /\ UNCHANGED nmVars
    /\ UNCHANGED cacheVars

\* financialRiskSource.calculate; fund is the answer of getFundamentalsForTicker
financialCalculate(ctx, fund) ==
    LET ticker == getTickerFromIcao(ctx.airline.icao)
    IN  IF ticker = NullTicker
        THEN [score |-> Null, confidence |-> "LOW",
              metadata |-> [reason |-> "Not publicly traded",
                            dataSource |-> "none"]]
        ELSE IF fund.dataSource = "none"
        THEN [score |-> Null, confidence |-> "LOW",
              metadata |-> [reason |-> "Financial data unavailable",
                            ticker |-> ticker, dataSource |-> "none"]]
        ELSE [score |-> computeFinancialRisk(fund),
              confidence |-> IF fund.dataSource = "api" THEN "HIGH" ELSE "MEDIUM",
              metadata |-> [ticker |-> ticker,
                            dataSource |-> fund.dataSource,
                            debtToEquity |-> fund.debtToEquity,
                            profitMargin |-> fund.profitMargin,
                            cashToDebt |-> fund.cashToDebt]]

-----------------------------------------------------------------------------
(* lib/sources/risk-sources.ts (the ComponentScore version) *)

\* context.countryInfo absent
NoCountryInfo == [present |-> FALSE, region |-> "undefined", gini |-> Null]

jurisdictionCalculate(ctx) ==
    IF ~ctx.countryInfo.present
    THEN [score |-> Num(50), confidence |-> "LOW",
          metadata |-> [reason |-> "Country data unavailable"]]
    ELSE
        LET region == ctx.countryInfo.region    \* after toLowerCase()
            gini   == ctx.countryInfo.gini
            regional ==
                IF region \in {"europe", "americas"} THEN 40 - 15
                ELSE IF region \in {"africa", "middle east"} THEN 40 + 20
                ELSE IF region \in {"asia", "oceania"} THEN 40 + 5
                ELSE 40
            hasGini == ~IsNull(gini) /\ gini.n # 0
            countryRisk ==
                IF hasGini
                THEN RAdd(RMul(Num(regional), Rat(7, 10)),
                          RMul(normalizeScore(gini, Num(25), Num(65), FALSE),
                               Rat(3, 10)))
                ELSE Num(regional)
        IN  [score |-> RMax(Num(0), RMin(Num(100), countryRisk)),
             confidence |-> IF hasGini THEN "HIGH" ELSE "MEDIUM",
             metadata |-> [region |-> region, gini |-> gini]]

\* the variant without the branch for an unknown fleet size: a fleet of 0 is
\* scored as a very small operator
scaleCalculateNoUnknownBranch(ctx) ==
    LET fleetSize == IF IsNull(ctx.airline.fleetSize) THEN 0
                     ELSE ctx.airline.fleetSize.n
    IN  [score |-> IF fleetSize < 10 THEN Num(70)
                   ELSE IF fleetSize < 25 THEN Num(60)
                   ELSE IF fleetSize < 50 THEN Num(45)
                   ELSE IF fleetSize < 100 THEN Num(35)
                   ELSE IF fleetSize < 200 THEN Num(25)
                   ELSE Num(15),
         confidence |-> "HIGH",
         metadata |-> [fleetSize |-> fleetSize]]

scaleCalculate(ctx) ==
    LET fleetSize == IF IsNull(ctx.airline.fleetSize) THEN 0
                     ELSE ctx.airline.fleetSize.n
    IN  IF fleetSize = 0
        THEN [score |-> Num(50), confidence |-> "LOW",
              metadata |-> [reason |-> "Fleet size data unavailable"]]
        ELSE [score |-> IF fleetSize < 10 THEN Num(70)
                        ELSE IF fleetSize < 25 THEN Num(60)
                        ELSE IF fleetSize < 50 THEN Num(45)
                        ELSE IF fleetSize < 100 THEN Num(35)
                        ELSE IF fleetSize < 200 THEN Num(25)
                        ELSE Num(15),
              confidence |-> "HIGH",
              metadata |-> [fleetSize |-> fleetSize]]

\* the variant in which the liquidity of an active airline's assets is the
\* neutral score 50
assetLiquidityNeutralWhenActive(ctx) ==
    IF ~ctx.airline.active
    THEN [score |-> Num(85), confidence |-> "HIGH",
          metadata |-> [reason |-> "Airline inactive", active |-> FALSE]]
    ELSE [score |-> Num(50), confidence |-> "LOW",
          metadata |-> [reason |-> "Fleet composition data unavailable",
                        active |-> TRUE]]

assetLiquidityCalculate(ctx) ==
    IF ~ctx.airline.active
    THEN [score |-> Num(85), confidence |-> "HIGH",
          metadata |-> [reason |-> "Airline inactive", active |-> FALSE]]
    ELSE [score |-> Null, confidence |-> "LOW",
          metadata |-> [reason |-> "Fleet composition data unavailable",
                        active |-> TRUE]]

\* the exported list, in declaration order; enabled is the variable of that name
enabledRiskSources ==
    << [key |-> "jurisdiction",   name |-> "Jurisdiction Risk (proxy)",
        weight |-> Rat(25, 100)],
       [key |-> "scale",          name |-> "Scale & Network Strength",
        weight |-> Rat(20, 100)],
       [key |-> "assetLiquidity", name |-> "Fleet & Asset Liquidity (proxy)",
        weight |-> Rat(20, 100)],
       [key |-> "financial",      name |-> "Financial Strength",
        weight |-> Rat(35, 100)] >>

SourceKeys == {enabledRiskSources[i].key : i \in DOMAIN enabledRiskSources}

\* source.calculate(context), dispatched on the source
Calculate(key, ctx, fund) ==
    CASE key = "jurisdiction"   -> jurisdictionCalculate(ctx)
      [] key = "scale"          -> scaleCalculate(ctx)
      [] key = "assetLiquidity" -> assetLiquidityCalculate(ctx)
      [] key = "financial"      -> financialCalculate(ctx, fund)

-----------------------------------------------------------------------------
(* lib/risk-aggregator.ts : calculateAirlineRisk *)

\* no RiskResult returned yet
NoResult == [none |-> TRUE]

\* context.financialData not set
NoFinancialData == [available |-> FALSE]

\* the promise of calculateAirlineRisk has not been rejected
NoRejection == [name |-> "none", evaluator |-> "undefined"]

\* errors a source's calculate may throw that the source does not expect;
\* an Error object has no evaluator property, reading it gives undefined
UnexpectedErrors ==
    {[name |-> "TypeError", evaluator |-> "undefined"],
     [name |-> "Error", evaluator |-> "undefined"]}

CurrentSource == enabledRiskSources[srcIdx]

\* the variant in which a null score is counted as an available score of 0
HandleComponentNullAsZero(acc, source, componentScore) ==
    IF IsNull(componentScore.score)
    THEN [acc EXCEPT
            !.missingComponents = Append(@, source.name),
            !.totalAvailableWeight = RAdd(@, source.weight),
            !.breakdown = Append(@, [key |-> source.key,
                                     name |-> source.name,
                                     score |-> Null,
                                     confidence |-> componentScore.confidence,
                                     weight |-> source.weight,
                                     effectiveWeight |-> Num(0)])]
    ELSE [acc EXCEPT
            !.totalWeightedScore =
                RAdd(@, RMul(componentScore.score, source.weight)),
            !.totalAvailableWeight = RAdd(@, source.weight),
            !.breakdown = Append(@, [key |-> source.key,
                                     name |-> source.name,
                                     score |-> componentScore.score,
                                     confidence |-> componentScore.confidence,
                                     weight |-> source.weight,
                                     effectiveWeight |-> source.weight])]

\* the variant in which a source with null score gets no breakdown entry
HandleComponentOmitsMissing(acc, source, componentScore) ==
    IF IsNull(componentScore.score)
    THEN [acc EXCEPT !.missingComponents = Append(@, source.name)]
    ELSE [acc EXCEPT
            !.totalWeightedScore =
                RAdd(@, RMul(componentScore.score, source.weight)),
            !.totalAvailableWeight = RAdd(@, source.weight),
            !.breakdown = Append(@, [key |-> source.key,
                                     name |-> source.name,
                                     score |-> componentScore.score,
                                     confidence |-> componentScore.confidence,
                                     weight |-> source.weight,
                                     effectiveWeight |-> source.weight])]

\* the loop body after source.calculate returned: a null score is recorded as
\* missing, an available score is added to the running totals
HandleComponent(acc, source, componentScore) ==
    IF IsNull(componentScore.score)
    THEN [acc EXCEPT
            !.missingComponents = Append(@, source.name),
            !.breakdown = Append(@, [key |-> source.key,
                                     name |-> source.name,
                                     score |-> Null,
                                     confidence |-> componentScore.confidence,
                                     weight |-> source.weight,
                                     effectiveWeight |-> Num(0)])]
    ELSE [acc EXCEPT
            !.totalWeightedScore =
                RAdd(@, RMul(componentScore.score, source.weight)),
            !.totalAvailableWeight = RAdd(@, source.weight),
            !.breakdown = Append(@, [key |-> source.key,
                                     name |-> source.name,
                                     score |-> componentScore.score,
                                     confidence |-> componentScore.confidence,
                                     weight |-> source.weight,
                                     effectiveWeight |-> source.weight])]

\* the variant that copies the metadata of every source into the context
BackFillEverySource(ctx, key, componentScore) ==
    [ctx EXCEPT !.financialData = componentScore.metadata]

\* the back-fill of context.financialData with the financial metadata
BackFill(ctx, key, componentScore) ==
    IF key = "financial"
    THEN [ctx EXCEPT !.financialData = componentScore.metadata]
    ELSE ctx

\* the variant in which the available weights are left as configured
ReweightKeepsConfiguredWeights(bd, taw) ==
    [reweighted |-> RLt(taw, Num(1)) /\ RLt(Num(0), taw), breakdown |-> bd]

\* "Reweight if some components are missing"
Reweight(bd, taw) ==
    IF RLt(taw, Num(1)) /\ RLt(Num(0), taw)
    THEN [reweighted |-> TRUE,
          breakdown |->
              [i \in DOMAIN bd |->
                  IF ~IsNull(bd[i].score) /\ bd[i].effectiveWeight.n # 0
                  THEN [bd[i] EXCEPT !.effectiveWeight = RDiv(bd[i].weight, taw)]
                  ELSE bd[i]]]
    ELSE [reweighted |-> FALSE, breakdown |-> bd]

\* the variant in which no available component gives the score 0
OverallScoreDefaultZero(tws, taw) ==
    IF RLt(Num(0), taw) THEN RDiv(tws, taw) ELSE Num(0)

\* the weighted average of the available components, 50 when there is none
OverallScore(tws, taw) ==
    IF RLt(Num(0), taw) THEN RDiv(tws, taw) ELSE Num(50)

\* a disabled source is passed over
SkipDisabled ==
    /\ aggPc = "loop"
    /\ srcIdx <= Len(enabledRiskSources)
    /\ ~enabled[CurrentSource.key]
    /\ srcIdx' = srcIdx + 1
    /\ UNCHANGED <<enabled, fundamentals, context, aggPc, allComponents,
                   breakdown, missingComponents, totalWeightedScore,
                   totalAvailableWeight, riskResult, rejection>>
    /\ UNCHANGED pfVars
    /\ UNCHANGED scVars
    /\ UNCHANGED nmVars
    /\ UNCHANGED fnVars
    /\ UNCHANGED cacheVars

\* one iteration of the loop for an enabled source
EvaluateSource ==
    /\ aggPc = "loop"
    /\ srcIdx <= Len(enabledRiskSources)
    /\ enabled[CurrentSource.key]
    /\ LET source == CurrentSource
           componentScore == Calculate(source.key, context, fundamentals)
           acc == HandleComponent(
                      [breakdown |-> breakdown,
                       missingComponents |-> missingComponents,
                       totalWeightedScore |-> totalWeightedScore,
                       totalAvailableWeight |-> totalAvailableWeight],
                      source, componentScore)
       IN  /\ allComponents' =
                 [k \in DOMAIN allComponents \cup {source.key} |->
                     IF k = source.key THEN componentScore ELSE allComponents[k]]
           /\ context' = BackFill(context, source.key, componentScore)
           /\ breakdown' = acc.breakdown
           /\ missingComponents' = acc.missingComponents
           /\ totalWeightedScore' = acc.totalWeightedScore
           /\ totalAvailableWeight' = acc.totalAvailableWeight
    /\ srcIdx' = srcIdx + 1
    /\ UNCHANGED <<enabled, fundamentals, aggPc, riskResult, rejection>>
    /\ UNCHANGED pfVars
    /\ UNCHANGED scVars
    /\ UNCHANGED nmVars
    /\ UNCHANGED fnVars
    /\ UNCHANGED cacheVars

\* after the loop: reweight, compute the overall score and bucket, return
ReturnResult ==
    /\ aggPc = "loop"
    /\ srcIdx > Len(enabledRiskSources)
    /\ LET rw == Reweight(breakdown, totalAvailableWeight)
           overallScore == OverallScore(totalWeightedScore, totalAvailableWeight)
       IN  /\ breakdown' = rw.breakdown
           /\ riskResult' =
                 [overallScore |-> RoundTo(overallScore, 10),
                  riskBucket |-> scoreToRiskBucket(overallScore, DEFAULT_RISK_CONFIG),
                  components |-> allComponents,
                  breakdown |-> rw.breakdown,
                  context |-> context,
                  calculatedAt |-> clock,
                  expiresAt |-> clock
                      + DEFAULT_RISK_CONFIG.cacheDurationMinutes * 60 * 1000,
                  \* an empty list stands for undefined, FALSE for undefined
                  metadata |-> [missingComponents |-> missingComponents,
                                reweighted |-> rw.reweighted]]
    /\ aggPc' = "done"
    /\ UNCHANGED <<enabled, fundamentals, context, srcIdx, allComponents,
                   missingComponents, totalWeightedScore, totalAvailableWeight,
                   rejection>>
    /\ UNCHANGED pfVars
    /\ UNCHANGED scVars
    /\ UNCHANGED nmVars
    /\ UNCHANGED fnVars
    /\ UNCHANGED cacheVars

\* "await source.calculate(context)" when the promise of calculate is
\* rejected: no try encloses the await, so the async function stops there and
\* its own promise is rejected with the same error object
EvaluatorRaises ==
    /\ aggPc = "loop"
    /\ srcIdx <= Len(enabledRiskSources)
    /\ enabled[CurrentSource.key]
    /\ \E thrown \in UnexpectedErrors : rejection' = thrown
    /\ aggPc' = "rejected"
    /\ UNCHANGED <<enabled, fundamentals, context, srcIdx, allComponents,
                   breakdown, missingComponents, totalWeightedScore,
                   totalAvailableWeight, riskResult>>
    /\ UNCHANGED pfVars
    /\ UNCHANGED scVars
    /\ UNCHANGED nmVars
    /\ UNCHANGED fnVars
    /\ UNCHANGED cacheVars

-----------------------------------------------------------------------------
(* lib/risk-aggregator.ts : calculateAirlineRisk as one function *)

\* the loop of calculateAirlineRisk over the first n sources, en telling which
\* sources are enabled
RECURSIVE RunSources(_, _, _, _)
RunSources(ctx, fund, en, n) ==
    IF n = 0
    THEN [context |-> ctx,
          allComponents |-> <<>>,
          acc |-> [breakdown |-> <<>>, missingComponents |-> <<>>,
                   totalWeightedScore |-> Num(0),
                   totalAvailableWeight |-> Num(0)]]
    ELSE LET prev == RunSources(ctx, fund, en, n - 1)
             source == enabledRiskSources[n]
             componentScore == Calculate(source.key, prev.context, fund)
         IN  IF ~en[source.key] THEN prev
             ELSE [context |-> BackFill(prev.context, source.key, componentScore),
                   allComponents |->
                       [k \in DOMAIN prev.allComponents \cup {source.key} |->
                           IF k = source.key THEN componentScore
                           ELSE prev.allComponents[k]],
                   acc |-> HandleComponent(prev.acc, source, componentScore)]

\* the RiskResult of a run of calculateAirlineRisk that ends at time now
calculateAirlineRisk(ctx, fund, en, now) ==
    LET run == RunSources(ctx, fund, en, Len(enabledRiskSources))
        rw == Reweight(run.acc.breakdown, run.acc.totalAvailableWeight)
        overallScore == OverallScore(run.acc.totalWeightedScore,
                                     run.acc.totalAvailableWeight)
    IN  [overallScore |-> RoundTo(overallScore, 10),
         riskBucket |-> scoreToRiskBucket(overallScore, DEFAULT_RISK_CONFIG),
         components |-> run.allComponents,
         breakdown |-> rw.breakdown,
         context |-> run.context,
         calculatedAt |-> now,
         expiresAt |-> now + DEFAULT_RISK_CONFIG.cacheDurationMinutes * 60 * 1000,
         metadata |-> [missingComponents |-> run.acc.missingComponents,
                       reweighted |-> rw.reweighted]]

-----------------------------------------------------------------------------
(* lib/risk-cache.ts : getOrCalculateAirlineRisk *)

CACHE_DURATION_HOURS == 6

\* the callers that ask for the risk of the same airline at the same time
Callers == {1, 2}

\* airline.riskSnapshots[0] of an airline without snapshots (undefined)
NoSnapshot == [none |-> TRUE]

\* a caller that has not called getOrCalculateAirlineRisk
NoCall ==
    [pc |-> "idle", started |-> 0, fundamentals |-> NoFundamentals,
     latestSnapshot |-> NoSnapshot, now |-> 0, riskResult |-> NoResult,
     fromCache |-> FALSE, runs |-> 0, attempts |-> 0, writes |-> 0]

\* getCachedRiskSnapshot has not been called
NotRead == [read |-> FALSE]

\* no call of the cache is under way, the store is empty
CacheIdle ==
    /\ clock = 0
    /\ airlineRow = TRUE
    /\ riskSnapshots = <<>>
    /\ calls = [p \in Callers |-> NoCall]
    /\ cachedRisk = NotRead

\* riskSnapshots: { orderBy: { calculatedAt: 'desc' }, take: 1 }: the rows the
\* query may put first; the order of rows with equal calculatedAt is the
\* store's choice
LatestSnapshots(rows) ==
    IF rows = <<>> THEN {NoSnapshot}
    ELSE {rows[i] : i \in {j \in DOMAIN rows :
                              \A k \in DOMAIN rows :
                                  rows[k].calculatedAt <= rows[j].calculatedAt}}

\* the variant that reuses a snapshot calculated exactly 6 hours ago
IsRecentInclusive(snapshot, now) ==
    /\ snapshot # NoSnapshot
    /\ snapshot.calculatedAt >= now - CACHE_DURATION_HOURS * 60 * 60 * 1000

\* latestSnapshot && latestSnapshot.calculatedAt > cacheExpiryTime
IsRecent(snapshot, now) ==
    /\ snapshot # NoSnapshot
    /\ snapshot.calculatedAt > now - CACHE_DURATION_HOURS * 60 * 60 * 1000

\* the row saveRiskSnapshot of risk-cache.ts creates; its component columns
\* (countryScore ... newsScore) are left out
CacheSnapshotRow(result) ==
    [overallScore |-> result.overallScore,
     riskBucket |-> result.riskBucket,
     sourceData |-> result.context,
     calculatedAt |-> result.calculatedAt,
     expiresAt |-> result.expiresAt]

\* reconstructRiskResultFromSnapshot, without the components and breakdown
\* it builds from the component columns
reconstructRiskResultFromSnapshot(snapshot) ==
    [overallScore |-> snapshot.overallScore,
     riskBucket |-> snapshot.riskBucket,
     context |-> snapshot.sourceData,
     calculatedAt |-> snapshot.calculatedAt,
     expiresAt |-> snapshot.expiresAt]

\* the context the callers pass: an active European airline with a ticker
CallContext ==
    [airline |-> [icao |-> "AAL", active |-> TRUE, fleetSize |-> Num(250),
                  ticker |-> "AAL"],
     countryInfo |-> [present |-> TRUE, region |-> "europe", gini |-> Null],
     financialData |-> NoFinancialData]

\* the most calls one caller makes
MaxCallsEach == 2

\* the time that passes between two readings of the clock, and how often
TickMs == 3 * 60 * 60 * 1000

MaxTicks == 3

\* time passes
Tick ==
    /\ clock < MaxTicks * TickMs
    /\ clock' = clock + TickMs
    /\ UNCHANGED <<airlineRow, riskSnapshots, calls, cachedRisk>>
    /\ UNCHANGED aggVars
    /\ UNCHANGED pfVars
    /\ UNCHANGED scVars
    /\ UNCHANGED nmVars
    /\ UNCHANGED fnVars

\* caller p calls getOrCalculateAirlineRisk: prisma.airline.findUnique with
\* the latest snapshot included
FindAirline(p) ==
    /\ calls[p].pc \in {"idle", "returned", "rejected"}
    /\ calls[p].started < MaxCallsEach
    /\ \E latest \in LatestSnapshots(riskSnapshots) :
          calls' = [calls EXCEPT ![p] =
                       [NoCall EXCEPT
                           !.pc = IF airlineRow THEN "found" ELSE "absent",
                           !.started = calls[p].started + 1,
                           \* what the fundamentals provider answers during
                           \* the calls of each caller
                           !.fundamentals = <<NoFundamentals, MockAAL>>[p],
                           !.latestSnapshot = latest]]
    /\ UNCHANGED <<clock, airlineRow, riskSnapshots, cachedRisk>>
    /\ UNCHANGED aggVars
    /\ UNCHANGED pfVars
    /\ UNCHANGED scVars
    /\ UNCHANGED nmVars
    /\ UNCHANGED fnVars

\* "If airline doesn't exist in DB, create it": prisma.airline.create; icao is
\* the unique key findUnique looks up, so the create of a row that another
\* call has inserted meanwhile fails and the call is rejected
CreateAirline(p) ==
    /\ calls[p].pc = "absent"
    /\ IF airlineRow
       THEN /\ calls' = [calls EXCEPT ![p].pc = "rejected"]
            /\ UNCHANGED airlineRow
       ELSE /\ airlineRow' = TRUE
            /\ calls' = [calls EXCEPT ![p].pc = "found",
                                      ![p].latestSnapshot = NoSnapshot]
    /\ UNCHANGED <<clock, riskSnapshots, cachedRisk>>
    /\ UNCHANGED aggVars
    /\ UNCHANGED pfVars
    /\ UNCHANGED scVars
    /\ UNCHANGED nmVars
    /\ UNCHANGED fnVars

\* "Check if we have a recent snapshot": return the reconstructed result, or
\* start calculateAirlineRisk
CheckSnapshot(p) ==
    /\ calls[p].pc = "found"
    /\ LET now == clock
           latestSnapshot == calls[p].latestSnapshot
       IN  IF IsRecent(latestSnapshot, now)
           THEN calls' = [calls EXCEPT
                             ![p].pc = "returned",
                             ![p].now = now,
                             ![p].fromCache = TRUE,
                             ![p].riskResult =
                                 reconstructRiskResultFromSnapshot(latestSnapshot)]
           ELSE calls' = [calls EXCEPT ![p].pc = "calculating", ![p].now = now]
    /\ UNCHANGED <<clock, airlineRow, riskSnapshots, cachedRisk>>
    /\ UNCHANGED aggVars
    /\ UNCHANGED pfVars
    /\ UNCHANGED scVars
    /\ UNCHANGED nmVars
    /\ UNCHANGED fnVars

\* await calculateAirlineRisk(context) returns
CalculateFresh(p) ==
    /\ calls[p].pc = "calculating"
    /\ calls' = [calls EXCEPT
                    ![p].pc = "calculated",
                    ![p].runs = @ + 1,
                    ![p].riskResult =
                        calculateAirlineRisk(CallContext, calls[p].fundamentals,
                                             [k \in SourceKeys |-> TRUE], clock)]
    /\ UNCHANGED <<clock, airlineRow, riskSnapshots, cachedRisk>>
    /\ UNCHANGED aggVars
    /\ UNCHANGED pfVars
    /\ UNCHANGED scVars
    /\ UNCHANGED nmVars
    /\ UNCHANGED fnVars

\* await saveRiskSnapshot(airline.id, riskResult), then return: the create
\* inserts a row, or it throws and the error is logged and swallowed
SaveAndReturn(p) ==
    /\ calls[p].pc = "calculated"
    /\ \/ /\ riskSnapshots' =
                Append(riskSnapshots, CacheSnapshotRow(calls[p].riskResult))
          /\ calls' = [calls EXCEPT ![p].pc = "returned",
                                    ![p].attempts = @ + 1,
                                    ![p].writes = @ + 1]
       \/ /\ UNCHANGED riskSnapshots
          /\ calls' = [calls EXCEPT ![p].pc = "returned",
                                    ![p].attempts = @ + 1]
    /\ UNCHANGED <<clock, airlineRow, cachedRisk>>
    /\ UNCHANGED aggVars
    /\ UNCHANGED pfVars
    /\ UNCHANGED scVars
    /\ UNCHANGED nmVars
    /\ UNCHANGED fnVars

-----------------------------------------------------------------------------
(* lib/risk-aggregator.ts : saveRiskSnapshot and getCachedRiskSnapshot *)

\* a text column that holds null
NullColumn == [null |-> TRUE, text |-> <<>>]

\* names.join(', '): the text as the list of its pieces, each name and each
\* separator being one piece
RECURSIVE Join(_)
Join(names) ==
    IF Len(names) = 0 THEN <<>>
    ELSE IF Len(names) = 1 THEN <<names[1]>>
    ELSE <<names[1], ", ">> \o Join(Tail(names))

\* text.split(', ') of a non-empty text: the pieces between the separators
RECURSIVE Split(_)
Split(text) ==
    IF Len(text) <= 1 THEN text
    ELSE IF text[2] = ", " THEN <<text[1]>> \o Split(SubSeq(text, 3, Len(text)))
    ELSE Split(Tail(text))

\* the row saveRiskSnapshot creates: score and confidence hold the columns
\* <key>Score and <key>Confidence of the four sources
SnapshotRow(result) ==
    [overallScore |-> result.overallScore,
     riskBucket |-> result.riskBucket,
     score |-> [k \in SourceKeys |->
                   IF k \in DOMAIN result.components
                   THEN result.components[k].score ELSE Null],
     confidence |-> [k \in SourceKeys |->
                        IF k \in DOMAIN result.components
                        THEN result.components[k].confidence ELSE "null"],
     sourceData |-> result.context,
     reweighted |-> result.metadata.reweighted,
     missingComponents |->
         IF result.metadata.missingComponents = <<>> THEN NullColumn
         ELSE [null |-> FALSE, text |-> Join(result.metadata.missingComponents)],
     calculatedAt |-> result.calculatedAt,
     expiresAt |-> result.expiresAt]

\* getCachedRiskSnapshot returned null
NullRisk == [read |-> TRUE, null |-> TRUE]

\* "Reconstruct breakdown (simplified)": one entry per rebuilt component, in
\* the order jurisdiction, scale, assetLiquidity, financial
CachedBreakdown(snapshot) ==
    LET all == [i \in DOMAIN enabledRiskSources |->
                   [key |-> enabledRiskSources[i].key,
                    name |-> enabledRiskSources[i].name,
                    score |-> snapshot.score[enabledRiskSources[i].key],
                    confidence |-> snapshot.confidence[enabledRiskSources[i].key],
                    weight |-> enabledRiskSources[i].weight]]
    IN  SelectSeq(all, LAMBDA e : ~IsNull(snapshot.score[e.key]))

\* the result getCachedRiskSnapshot returns at time now when the query
\* answered snapshot (NoSnapshot: no airline or no snapshot)
getCachedRiskSnapshot(snapshot, now) ==
    IF snapshot = NoSnapshot THEN NullRisk
    ELSE IF now > snapshot.expiresAt THEN NullRisk
    ELSE [read |-> TRUE, null |-> FALSE,
          overallScore |-> snapshot.overallScore,
          riskBucket |-> snapshot.riskBucket,
          components |->
              [k \in {key \in SourceKeys : ~IsNull(snapshot.score[key])} |->
                  [score |-> snapshot.score[k],
                   confidence |-> snapshot.confidence[k]]],
          breakdown |-> CachedBreakdown(snapshot),
          context |-> snapshot.sourceData,
          calculatedAt |-> snapshot.calculatedAt,
          expiresAt |-> snapshot.expiresAt,
          metadata |->
              [missingComponents |->
                   IF snapshot.missingComponents.null
                      \/ snapshot.missingComponents.text = <<>>
                   THEN <<>> ELSE Split(snapshot.missingComponents.text),
               reweighted |-> snapshot.reweighted]]

\* getAirlineRisk after calculateAirlineRisk returned:
\* await saveRiskSnapshot(airline.id, riskResult)
SaveRiskSnapshot ==
    /\ aggPc = "done"
    /\ airlineRow
    /\ riskSnapshots = <<>>
    /\ riskSnapshots' = Append(riskSnapshots, SnapshotRow(riskResult))
    /\ UNCHANGED <<clock, airlineRow, calls, cachedRisk>>
    /\ UNCHANGED aggVars
    /\ UNCHANGED pfVars
    /\ UNCHANGED scVars
    /\ UNCHANGED nmVars
    /\ UNCHANGED fnVars

\* a call of getCachedRiskSnapshot(icao); at records the time of the call
GetCachedRiskSnapshot ==
    /\ cachedRisk = NotRead
    /\ \E snapshot \in LatestSnapshots(riskSnapshots) :
          cachedRisk' =
              [result |-> getCachedRiskSnapshot(
                              IF airlineRow THEN snapshot ELSE NoSnapshot, clock),
               read |-> TRUE,
               at |-> clock]
    /\ UNCHANGED <<clock, airlineRow, riskSnapshots, calls>>
    /\ UNCHANGED aggVars
    /\ UNCHANGED pfVars
    /\ UNCHANGED scVars
    /\ UNCHANGED nmVars
    /\ UNCHANGED fnVars

-----------------------------------------------------------------------------
(* lib/portfolio-risk.ts : calculatePortfolioRisk (the multi-currency version) *)

\* calculatePortfolioRisk(id) has not been called
NotCalled == [called |-> FALSE, found |-> FALSE]

\* calculatePortfolioRisk returned null: no such portfolio
NullPortfolioRisk == [called |-> TRUE, found |-> FALSE]

\* exposure.currency || 'USD'
CurrencyOf(exposure) ==
    IF exposure.currency = "" THEN "USD" ELSE exposure.currency

\* the variant with "overallScore || 50": a stored score of 0 counts as missing
LatestRiskFalsyDefault(exposure) ==
    IF Len(exposure.airline.riskSnapshots) > 0
    THEN [airlineRisk |->
              IF exposure.airline.riskSnapshots[1].overallScore = Num(0)
              THEN Num(50) ELSE exposure.airline.riskSnapshots[1].overallScore,
          riskBucket  |-> exposure.airline.riskSnapshots[1].riskBucket]
    ELSE [airlineRisk |-> Num(50), riskBucket |-> "Medium"]

\* the airline's risk and bucket: its latest snapshot, or 50 / Medium
LatestRisk(exposure) ==
    IF Len(exposure.airline.riskSnapshots) > 0
    THEN [airlineRisk |-> exposure.airline.riskSnapshots[1].overallScore,
          riskBucket  |-> exposure.airline.riskSnapshots[1].riskBucket]
    ELSE [airlineRisk |-> Num(50), riskBucket |-> "Medium"]

\* the variant that adds an exposure to the bucket totals only when its
\* airline has a snapshot
AccumulateExposureSnapshotOnly(acc, exposure) ==
    LET amount == exposure.exposureAmount
        latest == LatestRisk(exposure)
        counted == IF Len(exposure.airline.riskSnapshots) > 0 THEN amount ELSE Num(0)
    IN  [totalExposure |-> RAdd(acc.totalExposure, amount),
         weightedRiskSum |->
             RAdd(acc.weightedRiskSum, RMul(amount, latest.airlineRisk)),
         buckets |->
             IF latest.riskBucket = "Low"
             THEN [acc.buckets EXCEPT !.low = RAdd(@, counted)]
             ELSE IF latest.riskBucket = "Medium"
             THEN [acc.buckets EXCEPT !.medium = RAdd(@, counted)]
             ELSE [acc.buckets EXCEPT !.high = RAdd(@, counted)],
         rows |-> Append(acc.rows,
                         [airline |-> [icao |-> exposure.airline.icao],
                          exposure |-> amount,
                          risk |-> latest.airlineRisk,
                          riskBucket |-> latest.riskBucket])]

\* one iteration of the loop over a currency group's exposures
AccumulateExposure(acc, exposure) ==
    LET amount == exposure.exposureAmount
        latest == LatestRisk(exposure)
    IN  [totalExposure |-> RAdd(acc.totalExposure, amount),
         weightedRiskSum |->
             RAdd(acc.weightedRiskSum, RMul(amount, latest.airlineRisk)),
         buckets |->
             IF latest.riskBucket = "Low"
             THEN [acc.buckets EXCEPT !.low = RAdd(@, amount)]
             ELSE IF latest.riskBucket = "Medium"
             THEN [acc.buckets EXCEPT !.medium = RAdd(@, amount)]
             ELSE [acc.buckets EXCEPT !.high = RAdd(@, amount)],
         rows |-> Append(acc.rows,
                         [airline |-> [icao |-> exposure.airline.icao],
                          exposure |-> amount,
                          risk |-> latest.airlineRisk,
                          riskBucket |-> latest.riskBucket])]

RECURSIVE FoldExposures(_, _)
FoldExposures(acc, exposures) ==
    IF exposures = <<>> THEN acc
    ELSE FoldExposures(AccumulateExposure(acc, Head(exposures)), Tail(exposures))

\* Math.max(...rows.map(r => r.exposure)) for a non-empty list
RECURSIVE MaxExposureAmount(_)
MaxExposureAmount(rows) ==
    IF Len(rows) = 1 THEN rows[1].exposure
    ELSE RMax(rows[1].exposure, MaxExposureAmount(Tail(rows)))

\* the variant with inclusive thresholds
ConcentrationPenaltyInclusive(maxConcentration) ==
    IF RLe(Rat(7, 10), maxConcentration) THEN 10
    ELSE IF RLe(Rat(5, 10), maxConcentration) THEN 5
    ELSE 0

ConcentrationPenalty(maxConcentration) ==
    IF RLt(Rat(7, 10), maxConcentration) THEN 10
    ELSE IF RLt(Rat(5, 10), maxConcentration) THEN 5
    ELSE 0

\* the variant without Math.min
AdjustedRiskUnclamped(baseRisk, concentrationPenalty) ==
    RAdd(baseRisk, Num(concentrationPenalty))

AdjustedRisk(baseRisk, concentrationPenalty) ==
    RMin(Num(100), RAdd(baseRisk, Num(concentrationPenalty)))

\* the variant that calls scoreToRiskBucket
PortfolioRiskBucketByConfig(adjustedRisk) ==
    scoreToRiskBucket(adjustedRisk, DEFAULT_RISK_CONFIG)

\* the variant with "> 70" for High
PortfolioRiskBucketAbove70(adjustedRisk) ==
    IF RLt(Num(70), adjustedRisk) THEN "High"
    ELSE IF RLe(Num(40), adjustedRisk) THEN "Medium"
    ELSE "Low"

PortfolioRiskBucket(adjustedRisk) ==
    IF RLe(Num(70), adjustedRisk) THEN "High"
    ELSE IF RLe(Num(40), adjustedRisk) THEN "Medium"
    ELSE "Low"

\* rows.sort((a, b) => b.exposure - a.exposure): descending, stable
RECURSIVE InsertRow(_, _)
InsertRow(sorted, row) ==
    IF sorted = <<>> THEN <<row>>
    ELSE IF RLt(Head(sorted).exposure, row.exposure)
         THEN <<row>> \o sorted
         ELSE <<Head(sorted)>> \o InsertRow(Tail(sorted), row)

RECURSIVE SortRows(_)
SortRows(rows) ==
    IF rows = <<>> THEN <<>>
    ELSE InsertRow(SortRows(SubSeq(rows, 1, Len(rows) - 1)), rows[Len(rows)])

\* the body of the loop over the currency groups.  The record holds the
\* CurrencyRiskResult fields as returned (rounded) and, under "computed", the
\* values of the locals totalExposure, baseRisk, maxConcentration and
\* adjustedRisk before the rounding of the return statement.
CurrencyRisk(exposures) ==
    LET acc == FoldExposures(
                   [totalExposure |-> Num(0), weightedRiskSum |-> Num(0),
                    buckets |-> [low |-> Num(0), medium |-> Num(0), high |-> Num(0)],
                    rows |-> <<>>],
                   exposures)
        totalExposure == acc.totalExposure
        baseRisk ==
            IF RLt(Num(0), totalExposure)
            THEN RDiv(acc.weightedRiskSum, totalExposure) ELSE Num(0)
        maxConcentration ==
            IF RLt(Num(0), totalExposure)
            THEN RDiv(MaxExposureAmount(acc.rows), totalExposure) ELSE Num(0)
        concentrationPenalty == ConcentrationPenalty(maxConcentration)
        adjustedRisk == AdjustedRisk(baseRisk, concentrationPenalty)
    IN  [totalExposure |-> RoundTo(totalExposure, 100),
         baseRisk |-> RoundTo(baseRisk, 10),
         adjustedRisk |-> RoundTo(adjustedRisk, 10),
         concentrationPenalty |-> concentrationPenalty,
         maxConcentration |-> RoundTo(maxConcentration, 1000),
         riskBucket |-> PortfolioRiskBucket(adjustedRisk),
         buckets |-> [low |-> RoundTo(acc.buckets.low, 100),
                      medium |-> RoundTo(acc.buckets.medium, 100),
                      high |-> RoundTo(acc.buckets.high, 100)],
         rows |-> SortRows(acc.rows),
         computed |-> [totalExposure |-> totalExposure,
                       baseRisk |-> baseRisk,
                       maxConcentration |-> maxConcentration,
                       adjustedRisk |-> adjustedRisk]]

\* the variant that computes every currency over all the exposures
GroupByCurrencyAllTogether(exposures) ==
    [c \in {CurrencyOf(exposures[i]) : i \in DOMAIN exposures} |-> exposures]

\* "Group exposures by currency": each group keeps the order of the exposures
GroupByCurrency(exposures) ==
    [c \in {CurrencyOf(exposures[i]) : i \in DOMAIN exposures} |->
        SelectSeq(exposures, LAMBDA e : CurrencyOf(e) = c)]

\* the currency codes of the model in the order Array.prototype.sort gives
CurrencyOrder == <<"EUR", "USD">>

\* the variant that sorts in descending order
SortedCurrenciesDescending(keys) ==
    SelectSeq(<<"USD", "EUR">>, LAMBDA c : c \in keys)

\* Array.from(keys).sort()
SortedCurrencies(keys) == SelectSeq(CurrencyOrder, LAMBDA c : c \in keys)

\* the result for a portfolio without exposures
EmptyPortfolioRisk ==
    [called |-> TRUE, found |-> TRUE,
     perCurrency |-> <<>>,
     currencies |-> <<>>,
     totalExposure |-> Num(0), baseRisk |-> Num(0), adjustedRisk |-> Num(0),
     portfolioRisk |-> Num(0), concentrationPenalty |-> 0,
     maxConcentration |-> Num(0), riskBucket |-> "Low",
     buckets |-> [low |-> Num(0), medium |-> Num(0), high |-> Num(0)],
     topExposures |-> <<>>,
     currency |-> "USD"]

\* the result for a portfolio with at least one exposure
NonEmptyPortfolioRisk(exposures) ==
    LET exposuresByCurrency == GroupByCurrency(exposures)
        currencies == SortedCurrencies(DOMAIN exposuresByCurrency)
        perCurrency ==
            [c \in DOMAIN exposuresByCurrency |-> CurrencyRisk(exposuresByCurrency[c])]
        primaryCurrency == currencies[1]
        primaryData == perCurrency[primaryCurrency]
    IN  [called |-> TRUE, found |-> TRUE,
         perCurrency |-> perCurrency,
         currencies |-> currencies,
         totalExposure |-> primaryData.totalExposure,
         baseRisk |-> primaryData.baseRisk,
         adjustedRisk |-> primaryData.adjustedRisk,
         portfolioRisk |-> primaryData.adjustedRisk,
         concentrationPenalty |-> primaryData.concentrationPenalty,
         maxConcentration |-> primaryData.maxConcentration,
         riskBucket |-> primaryData.riskBucket,
         buckets |-> primaryData.buckets,
         topExposures |->
             SubSeq(primaryData.rows, 1,
                    IF Len(primaryData.rows) < 10 THEN Len(primaryData.rows) ELSE 10),
         currency |-> primaryCurrency]

\* the portfolio ids asked for
PortfolioIds == {"P1", "P2"}

\* calculatePortfolioRisk(id): one read of the store, then the computation
CalculatePortfolioRisk(id) ==
    /\ \/ /\ id \notin DOMAIN portfolios
          /\ portfolioRisk' = [portfolioRisk EXCEPT ![id] = NullPortfolioRisk]
       \/ /\ id \in DOMAIN portfolios
          /\ Len(portfolios[id]) = 0
          /\ portfolioRisk' = [portfolioRisk EXCEPT ![id] = EmptyPortfolioRisk]
       \/ /\ id \in DOMAIN portfolios
          /\ Len(portfolios[id]) > 0
          /\ portfolioRisk' =
                [portfolioRisk EXCEPT ![id] = NonEmptyPortfolioRisk(portfolios[id])]
    /\ UNCHANGED portfolios
    /\ UNCHANGED scVars
    /\ UNCHANGED aggVars
    /\ UNCHANGED nmVars
    /\ UNCHANGED fnVars
    /\ UNCHANGED cacheVars

-----------------------------------------------------------------------------
(* lib/scenario-calculator.ts : calculateScenarioRisk, and the portfolio    *)
(* page that hands it the rows of one currency                              *)

\* the ScenarioInput has no modification
NoModification == [airlineIcao |-> "undefined", newExposure |-> Null]

\* no scenario has been simulated
NoScenario == [called |-> FALSE]

\* exposures.findIndex(e => e.airlineIcao === icao), from position i on; -1 if none
RECURSIVE FindIndex(_, _, _)
FindIndex(rows, icao, i) ==
    IF i > Len(rows) THEN -1
    ELSE IF rows[i].airlineIcao = icao THEN i
    ELSE FindIndex(rows, icao, i + 1)

\* the variant in which a modification naming an airline that has no row
\* adds a row for it
ApplyModificationUpsert(rows, modification) ==
    IF modification = NoModification THEN rows
    ELSE LET modifiedIndex == FindIndex(rows, modification.airlineIcao, 1)
         IN  IF modifiedIndex >= 1
             THEN [rows EXCEPT ![modifiedIndex].exposure = modification.newExposure]
             ELSE Append(rows, [airlineIcao |-> modification.airlineIcao,
                                exposure |-> modification.newExposure,
                                risk |-> Num(50), riskBucket |-> "Medium"])

\* the variant that overrides the amount of every row of the airline
ApplyModificationEveryMatch(rows, modification) ==
    IF modification = NoModification THEN rows
    ELSE [i \in DOMAIN rows |->
             IF rows[i].airlineIcao = modification.airlineIcao
             THEN [rows[i] EXCEPT !.exposure = modification.newExposure]
             ELSE rows[i]]

\* "Apply modification if provided": a copy of the rows, one amount replaced
ApplyModification(rows, modification) ==
    IF modification = NoModification THEN rows
    ELSE LET modifiedIndex == FindIndex(rows, modification.airlineIcao, 1)
         IN  IF modifiedIndex >= 1
             THEN [rows EXCEPT ![modifiedIndex].exposure = modification.newExposure]
             ELSE rows

\* Math.max(...exposures.map(e => e.exposure)) for a non-empty list
RECURSIVE ScenarioMaxExposure(_)
ScenarioMaxExposure(rows) ==
    IF Len(rows) = 1 THEN rows[1].exposure
    ELSE RMax(rows[1].exposure, ScenarioMaxExposure(Tail(rows)))

\* exposures.reduce((sum, e) => sum + f(e), 0), with f given as the sequence fs
RECURSIVE Reduce(_)
Reduce(fs) ==
    IF fs = <<>> THEN Num(0)
    ELSE RAdd(Reduce(SubSeq(fs, 1, Len(fs) - 1)), fs[Len(fs)])

\* .sort((a, b) => b.exposure - a.exposure): descending, stable
RECURSIVE ScenarioInsert(_, _)
ScenarioInsert(sorted, row) ==
    IF sorted = <<>> THEN <<row>>
    ELSE IF RLt(Head(sorted).exposure, row.exposure)
         THEN <<row>> \o sorted
         ELSE <<Head(sorted)>> \o ScenarioInsert(Tail(sorted), row)

RECURSIVE ScenarioSort(_)
ScenarioSort(rows) ==
    IF rows = <<>> THEN <<>>
    ELSE ScenarioInsert(ScenarioSort(SubSeq(rows, 1, Len(rows) - 1)), rows[Len(rows)])

\* the concentration penalty of the scenario calculator
ScenarioConcentrationPenalty(maxConcentration) ==
    IF RLt(Rat(7, 10), maxConcentration) THEN 10
    ELSE IF RLt(Rat(5, 10), maxConcentration) THEN 5
    ELSE 0

\* the adjusted risk of the scenario calculator
ScenarioAdjustedRisk(baseRisk, concentrationPenalty) ==
    RMin(Num(100), RAdd(baseRisk, Num(concentrationPenalty)))

\* the risk bucket of the scenario calculator
ScenarioRiskBucket(adjustedRisk) ==
    IF RLe(Num(70), adjustedRisk) THEN "High"
    ELSE IF RLe(Num(40), adjustedRisk) THEN "Medium"
    ELSE "Low"

\* calculateScenarioRisk(input).  Under "computed" the record holds the locals
\* baseRisk, maxConcentration and adjustedRisk before the rounding of the
\* return statement.
calculateScenarioRisk(input) ==
    LET exposures ==
            SelectSeq(ApplyModification(input.exposures, input.modification),
                      LAMBDA e : RLt(Num(0), e.exposure))
    IN  IF Len(exposures) = 0
        THEN [called |-> TRUE,
              totalExposure |-> Num(0), baseRisk |-> Num(0),
              adjustedRisk |-> Num(0), concentrationPenalty |-> 0,
              maxConcentration |-> Num(0), riskBucket |-> "Low",
              topExposures |-> <<>>,
              computed |-> [totalExposure |-> Num(0), baseRisk |-> Num(0),
                            maxConcentration |-> Num(0), adjustedRisk |-> Num(0)]]
        ELSE
        LET totalExposure ==
                Reduce([i \in DOMAIN exposures |-> exposures[i].exposure])
            weightedRiskSum ==
                Reduce([i \in DOMAIN exposures |->
                           RMul(exposures[i].exposure, exposures[i].risk)])
            baseRisk ==
                IF RLt(Num(0), totalExposure)
                THEN RDiv(weightedRiskSum, totalExposure) ELSE Num(0)
            maxConcentration ==
                IF RLt(Num(0), totalExposure)
                THEN RDiv(ScenarioMaxExposure(exposures), totalExposure) ELSE Num(0)
            concentrationPenalty == ScenarioConcentrationPenalty(maxConcentration)
            adjustedRisk == ScenarioAdjustedRisk(baseRisk, concentrationPenalty)
            sortedExposures ==
                ScenarioSort(
                    [i \in DOMAIN exposures |->
                        [airlineIcao |-> exposures[i].airlineIcao,
                         exposure |-> exposures[i].exposure,
                         exposureShare |->
                             IF RLt(Num(0), totalExposure)
                             THEN RMul(RDiv(exposures[i].exposure, totalExposure),
                                       Num(100))
                             ELSE Num(0),
                         risk |-> exposures[i].risk,
                         riskBucket |-> exposures[i].riskBucket]])
        IN  [called |-> TRUE,
             totalExposure |-> RoundTo(totalExposure, 100),
             baseRisk |-> RoundTo(baseRisk, 10),
             adjustedRisk |-> RoundTo(adjustedRisk, 10),
             concentrationPenalty |-> concentrationPenalty,
             maxConcentration |-> RoundTo(maxConcentration, 1000),
             riskBucket |-> ScenarioRiskBucket(adjustedRisk),
             topExposures |->
                 SubSeq(sortedExposures, 1,
                        IF Len(sortedExposures) < 10 THEN Len(sortedExposures) ELSE 10),
             computed |-> [totalExposure |-> totalExposure, baseRisk |-> baseRisk,
                           maxConcentration |-> maxConcentration,
                           adjustedRisk |-> adjustedRisk]]

\* What calculateScenarioRisk does to memory.  arrays[1] is input.exposures,
\* an array of references into objects; every array and object created
\* during the call is appended.
RECURSIVE RefsUpTo(_)
RefsUpTo(n) == IF n = 0 THEN <<>> ELSE Append(RefsUpTo(n - 1), n)

InputMemory(input) ==
    [arrays  |-> <<RefsUpTo(Len(input.exposures))>>,
     objects |-> input.exposures]

\* the rows an array refers to
Deref(mem, a) == [i \in DOMAIN mem.arrays[a] |-> mem.objects[mem.arrays[a][i]]]

\* let exposures = [...input.exposures]: a new array with the same references
SpreadCopy(mem) == [mem EXCEPT !.arrays = Append(@, mem.arrays[1])]

\* the variant that writes the new amount into the row object itself:
\* exposures[modifiedIndex].exposure = newExposure
AssignInPlace(mem, a, modifiedIndex, newExposure) ==
    [mem EXCEPT !.objects[mem.arrays[a][modifiedIndex]].exposure = newExposure]

\* exposures[modifiedIndex] = {...exposures[modifiedIndex], exposure: newExposure}:
\* a new object, referred to from array a only
AssignModifiedCopy(mem, a, modifiedIndex, newExposure) ==
    [arrays  |-> [mem.arrays EXCEPT ![a][modifiedIndex] = Len(mem.objects) + 1],
     objects |-> Append(mem.objects,
                        [mem.objects[mem.arrays[a][modifiedIndex]]
                            EXCEPT !.exposure = newExposure])]

\* exposures = exposures.filter(e => e.exposure > 0): a new array
RECURSIVE PositiveRefs(_, _)
PositiveRefs(objects, refs) ==
    IF refs = <<>> THEN <<>>
    ELSE IF RLt(Num(0), objects[Head(refs)].exposure)
         THEN <<Head(refs)>> \o PositiveRefs(objects, Tail(refs))
         ELSE PositiveRefs(objects, Tail(refs))

FilterPositive(mem, a) ==
    [mem EXCEPT !.arrays = Append(@, PositiveRefs(mem.objects, mem.arrays[a]))]

\* the sort of an array of references, descending by exposure, stable
RECURSIVE InsertRef(_, _, _)
InsertRef(objects, sorted, r) ==
    IF sorted = <<>> THEN <<r>>
    ELSE IF RLt(objects[Head(sorted)].exposure, objects[r].exposure)
         THEN <<r>> \o sorted
         ELSE <<Head(sorted)>> \o InsertRef(objects, Tail(sorted), r)

RECURSIVE SortRefs(_, _)
SortRefs(objects, refs) ==
    IF refs = <<>> THEN <<>>
    ELSE InsertRef(objects, SortRefs(objects, SubSeq(refs, 1, Len(refs) - 1)),
                   refs[Len(refs)])

\* exposures.map(e => ({...})).sort(...): new objects in a new array, which
\* is then sorted in place
MapAndSort(mem, a, totalExposure) ==
    LET old == mem.arrays[a]
        base == Len(mem.objects)
        mapped ==
            [i \in DOMAIN old |->
                [airlineIcao |-> mem.objects[old[i]].airlineIcao,
                 exposure |-> mem.objects[old[i]].exposure,
                 exposureShare |->
                     IF RLt(Num(0), totalExposure)
                     THEN RMul(RDiv(mem.objects[old[i]].exposure, totalExposure),
                               Num(100))
                     ELSE Num(0),
                 risk |-> mem.objects[old[i]].risk,
                 riskBucket |-> mem.objects[old[i]].riskBucket]]
        objects == mem.objects \o mapped
    IN  [arrays  |-> Append(mem.arrays,
                            SortRefs(objects, [i \in DOMAIN old |-> base + i])),
         objects |-> objects]

\* the memory after calculateScenarioRisk(input): array 2 is the copy, array 3
\* the filtered rows, array 4 (when there are rows left) the sorted rows
ScenarioMemory(input) ==
    LET copied == SpreadCopy(InputMemory(input))
        modifiedIndex == FindIndex(Deref(copied, 2), input.modification.airlineIcao, 1)
        modified ==
            IF input.modification # NoModification /\ modifiedIndex >= 1
            THEN AssignModifiedCopy(copied, 2, modifiedIndex,
                                    input.modification.newExposure)
            ELSE copied
        filtered == FilterPositive(modified, 2)
        rows == Deref(filtered, 3)
    IN  IF Len(rows) = 0 THEN filtered
        ELSE MapAndSort(filtered, 3,
                        Reduce([i \in DOMAIN rows |-> rows[i].exposure]))

\* the rows the portfolio page hands to ScenarioAnalysis for the exposures of
\* one currency: riskSnapshots?.[0]?.overallScore || 50 (a score of 0 is
\* falsy), riskSnapshots?.[0]?.riskBucket || 'Medium'
ScenarioRows(exposures) ==
    [i \in DOMAIN exposures |->
        LET snaps == exposures[i].airline.riskSnapshots
        IN  [airlineIcao |-> exposures[i].airline.icao,
             exposure |-> exposures[i].exposureAmount,
             risk |-> IF Len(snaps) > 0 /\ snaps[1].overallScore # Num(0)
                      THEN snaps[1].overallScore ELSE Num(50),
             riskBucket |-> IF Len(snaps) > 0 THEN snaps[1].riskBucket ELSE "Medium"]]

\* a call of calculateScenarioRisk(scenarioInput) by any caller
CallScenarioRisk ==
    /\ scenarioResult' = calculateScenarioRisk(scenarioInput)
    /\ scenarioMemory' = ScenarioMemory(scenarioInput)
    /\ UNCHANGED scenarioInput
    /\ UNCHANGED pfVars
    /\ UNCHANGED aggVars
    /\ UNCHANGED nmVars
    /\ UNCHANGED fnVars
    /\ UNCHANGED cacheVars

\* handleSimulate of the ScenarioAnalysis component that the page of portfolio
\* id shows for one currency: the airline is selected among the rows shown,
\* the new amount is a number >= 0
handleSimulate(id, currency, selectedAirline, exposureValue) ==
    /\ id \in DOMAIN portfolios
    /\ Len(portfolios[id]) > 0
    /\ currency \in DOMAIN GroupByCurrency(portfolios[id])
    /\ \E i \in DOMAIN portfolios[id] :
          /\ CurrencyOf(portfolios[id][i]) = currency
          /\ portfolios[id][i].airline.icao = selectedAirline
    /\ RLe(Num(0), exposureValue)
    /\ scenarioInput' =
          [exposures |-> ScenarioRows(GroupByCurrency(portfolios[id])[currency]),
           currency |-> currency,
           modification |-> [airlineIcao |-> selectedAirline,
                             newExposure |-> exposureValue]]
    /\ scenarioResult' = calculateScenarioRisk(scenarioInput')
    /\ scenarioMemory' = ScenarioMemory(scenarioInput')
    /\ UNCHANGED <<portfolios, portfolioRisk>>
    /\ UNCHANGED aggVars
    /\ UNCHANGED nmVars
    /\ UNCHANGED fnVars
    /\ UNCHANGED cacheVars

-----------------------------------------------------------------------------
(* The inputs of calculateAirlineRisk *)

Icaos == {"AAL", "UAE", "ZZZ"}

FleetSizes == {Null, Num(0), Num(5), Num(20), Num(40), Num(60), Num(150), Num(250)}

Regions == {"europe", "africa", "asia", "undefined"}

Ginis == {Null, Num(45), Num(80)}

CountryInfos ==
    {NoCountryInfo} \cup
    {[present |-> TRUE, region |-> r, gini |-> g] : r \in Regions, g \in Ginis}

Airlines ==
    [icao : Icaos, active : BOOLEAN, fleetSize : FleetSizes,
     ticker : {"AAL", NullTicker}]

Contexts ==
    [airline : Airlines, countryInfo : CountryInfos,
     financialData : {NoFinancialData}]

\* what the fundamentals provider may answer for the airline's ticker: null,
\* the mock profile, or live data
ApiFundamentals ==
    {[debtToEquity |-> Rat(8, 10), profitMargin |-> Num(12),
      cashToDebt |-> Rat(12, 10), dataSource |-> "api"],
     [debtToEquity |-> Num(6), profitMargin |-> Num(-5),
      cashToDebt |-> Rat(5, 100), dataSource |-> "api"],
     \* scored 65.1 by computeFinancialRisk
     [debtToEquity |-> Rat(35, 10), profitMargin |-> Rat(225, 1000),
      cashToDebt |-> Rat(2, 10), dataSource |-> "api"]}

FundamentalsFor(icao) ==
    IF getTickerFromIcao(icao) = NullTicker
    THEN {NoFundamentals}
    ELSE {NoFundamentals, MockAAL} \cup ApiFundamentals

AggInit ==
    /\ enabled \in [SourceKeys -> BOOLEAN]
    /\ context \in Contexts
    /\ fundamentals \in FundamentalsFor(context.airline.icao)
    /\ aggPc = "loop"
    /\ srcIdx = 1
    /\ allComponents = <<>>
    /\ breakdown = <<>>
    /\ missingComponents = <<>>
    /\ totalWeightedScore = Num(0)
    /\ totalAvailableWeight = Num(0)
    /\ riskResult = NoResult
    /\ rejection = NoRejection

\* no portfolio is stored and none is asked for
PortfolioIdle ==
    /\ portfolios = <<>>
    /\ portfolioRisk = [id \in PortfolioIds |-> NotCalled]

\* no scenario is simulated
ScenarioIdle ==
    /\ scenarioInput = [exposures |-> <<>>, currency |-> "USD",
                        modification |-> NoModification]
    /\ scenarioResult = NoScenario
    /\ scenarioMemory = InputMemory(scenarioInput)

AggNext == SkipDisabled \/ EvaluateSource \/ ReturnResult

vars == <<aggVars, pfVars, scVars, nmVars, fnVars, cacheVars>>

Init ==
    /\ AggInit
    /\ PortfolioIdle
    /\ ScenarioIdle
    /\ NormalizeIdle
    /\ FinancialIdle
    /\ CacheIdle

Next == AggNext

Spec == Init /\ [][Next]_vars

\* calculateAirlineRisk with sources whose calculate may throw
FaultyNext == AggNext \/ EvaluatorRaises

SpecFaulty == Init /\ [][FaultyNext]_vars

-----------------------------------------------------------------------------
(* The inputs of calculatePortfolioRisk *)

\* the most exposures a stored portfolio holds
MaxExposures == 3

\* one airline per exposure: the i-th exposure of a portfolio is to PIcaos[i]
PIcaos == <<"AAL", "DLH", "UAE", "QFA", "SIA">>

Amounts == {Num(3), Num(7)}

Currencies == {"EUR", "USD"}

\* what the query's "riskSnapshots ... take: 1" holds for an airline
SnapshotLists ==
    {<<>>,
     <<[overallScore |-> Num(0),  riskBucket |-> "Low"]>>,
     <<[overallScore |-> Num(100), riskBucket |-> "High"]>>}

\* the exposures of a portfolio, in the order the query returns them
Exposures(n, amts, curs, snaps) ==
    [i \in 1..n |->
        [airline |-> [icao |-> PIcaos[i], riskSnapshots |-> snaps[i]],
         exposureAmount |-> amts[i],
         currency |-> curs[i]]]

\* the aggregator is not running
AggIdle ==
    /\ enabled = [k \in SourceKeys |-> TRUE]
    /\ context = [airline |-> [icao |-> "ZZZ", active |-> TRUE,
                               fleetSize |-> Null, ticker |-> NullTicker],
                  countryInfo |-> NoCountryInfo,
                  financialData |-> NoFinancialData]
    /\ fundamentals = NoFundamentals
    /\ aggPc = "idle"
    /\ srcIdx = 1
    /\ allComponents = <<>>
    /\ breakdown = <<>>
    /\ missingComponents = <<>>
    /\ totalWeightedScore = Num(0)
    /\ totalAvailableWeight = Num(0)
    /\ riskResult = NoResult
    /\ rejection = NoRejection

\* one stored portfolio, P1, of at most maxLen exposures
StoredPortfolio(maxLen) ==
    \E n \in 0..maxLen :
        \E amts \in [1..n -> Amounts], curs \in [1..n -> Currencies],
           snaps \in [1..n -> SnapshotLists] :
            portfolios = [id \in {"P1"} |-> Exposures(n, amts, curs, snaps)]

PortfolioInit ==
    /\ StoredPortfolio(MaxExposures)
    /\ portfolioRisk = [id \in PortfolioIds |-> NotCalled]
    /\ ScenarioIdle
    /\ AggIdle
    /\ NormalizeIdle
    /\ FinancialIdle
    /\ CacheIdle

PortfolioNext == \E id \in PortfolioIds : CalculatePortfolioRisk(id)

SpecPortfolio == PortfolioInit /\ [][PortfolioNext]_vars

-----------------------------------------------------------------------------
(* The inputs of calculateScenarioRisk *)

\* the most exposures of a portfolio whose scenarios are simulated
MaxScenarioRows == 2

\* the amounts typed into the simulation form
NewExposures == {Num(0), Num(7)}

ScenarioInit ==
    /\ StoredPortfolio(MaxScenarioRows)
    /\ portfolioRisk = [id \in PortfolioIds |-> NotCalled]
    /\ ScenarioIdle
    /\ AggIdle
    /\ NormalizeIdle
    /\ FinancialIdle
    /\ CacheIdle

ScenarioNext ==
    \/ \E id \in PortfolioIds : CalculatePortfolioRisk(id)
    \/ \E id \in PortfolioIds, currency \in Currencies,
          i \in 1..MaxScenarioRows, exposureValue \in NewExposures :
          handleSimulate(id, currency, PIcaos[i], exposureValue)

SpecScenario == ScenarioInit /\ [][ScenarioNext]_vars

-----------------------------------------------------------------------------
(* calculateScenarioRisk as a function of any ScenarioInput *)

\* the most rows of a ScenarioInput
MaxCallRows == 2

\* amounts of the rows; a row may carry the amount 0
RowAmounts == {Num(0), Num(3), Num(7)}

\* risk and bucket of a row
RowRisks ==
    {[risk |-> Num(0), riskBucket |-> "Low"],
     [risk |-> Num(50), riskBucket |-> "Medium"],
     [risk |-> Num(100), riskBucket |-> "High"]}

\* airlines of the rows: two rows may name the same airline
RowAirlines == {"AAL", "DLH"}

\* no modification, or a new amount (negative, zero or positive) for an
\* airline; UAE is the airline of no row
CallModifications ==
    {NoModification} \cup
    [airlineIcao : RowAirlines \cup {"UAE"},
     newExposure : {Num(-1), Num(0), Num(7)}]

ScenarioRowsOf(n, icaos, amts, risks) ==
    [i \in 1..n |->
        [airlineIcao |-> icaos[i],
         exposure |-> amts[i],
         risk |-> risks[i].risk,
         riskBucket |-> risks[i].riskBucket]]

CallInit ==
    /\ \E n \in 0..MaxCallRows, modification \in CallModifications :
          \E icaos \in [1..n -> RowAirlines], amts \in [1..n -> RowAmounts],
             risks \in [1..n -> RowRisks] :
              scenarioInput = [exposures |-> ScenarioRowsOf(n, icaos, amts, risks),
                               currency |-> "USD",
                               modification |-> modification]
    /\ scenarioResult = NoScenario
    /\ scenarioMemory = InputMemory(scenarioInput)
    /\ PortfolioIdle
    /\ AggIdle
    /\ NormalizeIdle
    /\ FinancialIdle
    /\ CacheIdle

CallNext == CallScenarioRisk

SpecScenarioCall == CallInit /\ [][CallNext]_vars

-----------------------------------------------------------------------------
(* Two stored portfolios *)

\* the most exposures of each of the two portfolios
MaxPairExposures == 2

\* what is on file for each airline of PIcaos: the same for every portfolio
AirlineSnapshots ==
    <<<<>>,
      <<[overallScore |-> Num(100), riskBucket |-> "High"]>>,
      <<[overallScore |-> Num(0), riskBucket |-> "Low"]>>,
      <<>>,
      <<[overallScore |-> Num(100), riskBucket |-> "High"]>>>>

\* n exposures, to the airlines that follow position off of PIcaos
ExposuresFrom(off, n, amts, curs) ==
    [i \in 1..n |->
        [airline |-> [icao |-> PIcaos[off + i],
                      riskSnapshots |-> AirlineSnapshots[off + i]],
         exposureAmount |-> amts[i],
         currency |-> curs[i]]]

\* P1 is stored, P2 is stored or not
PairInit ==
    /\ \E n1 \in 0..MaxPairExposures, n2 \in 0..MaxPairExposures, off \in {0, 1},
          stored2 \in BOOLEAN :
          \E amts1 \in [1..n1 -> Amounts], curs1 \in [1..n1 -> Currencies],
             amts2 \in [1..n2 -> Amounts], curs2 \in [1..n2 -> Currencies] :
              portfolios =
                  [id \in (IF stored2 THEN {"P1", "P2"} ELSE {"P1"}) |->
                      IF id = "P1" THEN ExposuresFrom(0, n1, amts1, curs1)
                      ELSE ExposuresFrom(off, n2, amts2, curs2)]
    /\ portfolioRisk = [id \in PortfolioIds |-> NotCalled]
    /\ ScenarioIdle
    /\ AggIdle
    /\ NormalizeIdle
    /\ FinancialIdle
    /\ CacheIdle

PairNext == \E id \in PortfolioIds : CalculatePortfolioRisk(id)

SpecIsolation == PairInit /\ [][PairNext]_vars

-----------------------------------------------------------------------------
(* The inputs of normalizeScore *)

NormalizeValues ==
    {Num(-5), Num(0), Num(10), Num(25), Num(45), Num(65), Num(80), Num(100),
     Num(120)}

NormalizeLimits == {Num(0), Num(25), Num(65), Num(100)}

NormalizeInit ==
    /\ \E value \in NormalizeValues, min \in NormalizeLimits,
          max \in NormalizeLimits, invert \in BOOLEAN :
          normalizeInput = [value |-> value, min |-> min, max |-> max,
                            invert |-> invert]
    /\ normalizeOutcome = NoOutcome
    /\ PortfolioIdle
    /\ ScenarioIdle
    /\ AggIdle
    /\ FinancialIdle
    /\ CacheIdle

NormalizeNext == CallNormalizeScore

SpecNormalize == NormalizeInit /\ [][NormalizeNext]_vars

-----------------------------------------------------------------------------
(* Concurrent calls of getOrCalculateAirlineRisk for one airline *)

\* the airline is in the store or not; the store holds no snapshot yet
CacheInit ==
    /\ clock = 0
    /\ airlineRow \in BOOLEAN
    /\ riskSnapshots = <<>>
    /\ calls = [p \in Callers |-> NoCall]
    /\ cachedRisk = NotRead
    /\ AggIdle
    /\ PortfolioIdle
    /\ ScenarioIdle
    /\ NormalizeIdle
    /\ FinancialIdle

CacheNext ==
    \/ Tick
    \/ \E p \in Callers :
          \/ FindAirline(p)
          \/ CreateAirline(p)
          \/ CheckSnapshot(p)
          \/ CalculateFresh(p)
          \/ SaveAndReturn(p)

SpecCache == CacheInit /\ [][CacheNext]_vars

-----------------------------------------------------------------------------
(* A result saved as a snapshot and read back *)

\* the result of an airline, active or not, is calculated, saved and read
SnapshotInit ==
    /\ AggInit
    /\ context.airline.icao = "AAL"
    /\ context.airline.ticker = "AAL"
    /\ context.airline.fleetSize = Num(250)
    /\ context.countryInfo = [present |-> TRUE, region |-> "europe", gini |-> Null]
    /\ CacheIdle
    /\ PortfolioIdle
    /\ ScenarioIdle
    /\ NormalizeIdle
    /\ FinancialIdle

SnapshotNext == AggNext \/ Tick \/ SaveRiskSnapshot \/ GetCachedRiskSnapshot

SpecSnapshot == SnapshotInit /\ [][SnapshotNext]_vars

-----------------------------------------------------------------------------
(* The inputs of computeFinancialRisk *)

DebtToEquityValues ==
    {Rat(1, 2), Num(1), Rat(3, 2), Num(2), Num(3), Num(4), Num(5),
     Rat(525, 100), Num(6), Num(8)}

ProfitMarginValues ==
    {Num(-5), Num(-1), Num(0), Num(1), Num(2), Rat(288, 100), Num(5), Num(7),
     Num(10), Num(12), Num(25)}

CashToDebtValues ==
    {Rat(5, 100), Rat(1, 10), Rat(29, 100), Rat(3, 10), Rat(1, 2), Num(1),
     Rat(12, 10)}

FinancialInit ==
    /\ \E d \in DebtToEquityValues, m \in ProfitMarginValues,
          c \in CashToDebtValues :
          financialInput = [debtToEquity |-> d, profitMargin |-> m,
                            cashToDebt |-> c, dataSource |-> "mock"]
    /\ financialOutcome = NoScore
    /\ PortfolioIdle
    /\ ScenarioIdle
    /\ AggIdle
    /\ NormalizeIdle
    /\ CacheIdle

FinancialNext == CallComputeFinancialRisk

SpecFinancial == FinancialInit /\ [][FinancialNext]_vars

-----------------------------------------------------------------------------
(* Properties of calculateAirlineRisk *)

\* the sum of f[x] over the finite set S
RECURSIVE RSumOver(_, _)
RSumOver(f, S) ==
    IF S = {} THEN Num(0)
    ELSE LET x == CHOOSE y \in S : TRUE
         IN  RAdd(f[x], RSumOver(f, S \ {x}))

Returned == aggPc = "done"

\* the positions of the breakdown whose score is not null
AvailableIdx(bd) == {i \in DOMAIN bd : ~IsNull(bd[i].score)}

\* the sources that were run, and those among them that produced a score
EnabledIdx == {i \in DOMAIN enabledRiskSources : enabled[enabledRiskSources[i].key]}

ScoredIdx(components) ==
    {i \in EnabledIdx : ~IsNull(components[enabledRiskSources[i].key].score)}

\* C1: in every returned result that is marked reweighted and has an available
\* component, the effective weights of the available breakdown entries sum to
\* 1, each being weight / (sum of the available weights), and every entry with
\* null score has effective weight 0 and its display name in missingComponents.
C1_EffectiveWeightsSumToOne ==
    (Returned /\ riskResult.metadata.reweighted
              /\ AvailableIdx(riskResult.breakdown) # {}) =>
        LET bd    == riskResult.breakdown
            mc    == riskResult.metadata.missingComponents
            avail == AvailableIdx(bd)
            total == RSumOver([i \in DOMAIN bd |-> bd[i].weight], avail)
        IN  /\ RSumOver([i \in DOMAIN bd |-> bd[i].effectiveWeight], avail) = Num(1)
            /\ \A i \in avail : bd[i].effectiveWeight = RDiv(bd[i].weight, total)
            /\ \A i \in DOMAIN bd \ avail :
                  /\ bd[i].effectiveWeight = Num(0)
                  /\ \E j \in DOMAIN mc : mc[j] = bd[i].name

\* a reweighted result with two available components and a missing one
C1_Witness ==
    /\ Returned
    /\ riskResult.metadata.reweighted
    /\ Cardinality(AvailableIdx(riskResult.breakdown)) >= 2
    /\ Len(riskResult.metadata.missingComponents) >= 1

\* C2: with at least one non-null score, the overall score is the sum of
\* score * weight over the sources with non-null score divided by the sum of
\* their weights, rounded to one decimal; null scores enter neither sum.
C2_OverallIsWeightedAverageOfAvailable ==
    (Returned /\ ScoredIdx(riskResult.components) # {}) =>
        LET scored == ScoredIdx(riskResult.components)
            weighted ==
                [i \in DOMAIN enabledRiskSources |->
                    IF i \in scored
                    THEN RMul(riskResult.components[enabledRiskSources[i].key].score,
                              enabledRiskSources[i].weight)
                    ELSE Num(0)]
            weights ==
                [i \in DOMAIN enabledRiskSources |-> enabledRiskSources[i].weight]
        IN  riskResult.overallScore =
                RoundTo(RDiv(RSumOver(weighted, scored), RSumOver(weights, scored)), 10)

\* a result computed from two scores and at least one null score
C2_Witness ==
    /\ Returned
    /\ Cardinality(ScoredIdx(riskResult.components)) >= 2
    /\ \E i \in EnabledIdx : i \notin ScoredIdx(riskResult.components)
    /\ riskResult.overallScore # Num(50)

\* every enabled source returned a null score
AllEnabledNull == Returned /\ ScoredIdx(riskResult.components) = {}

\* C3: when every enabled evaluator returns null the call still returns: the
\* overall score is 50, the bucket Medium, and missingComponents lists the
\* display name of every evaluator that ran, in order.
C3_AllNullGivesNeutralMedium ==
    /\ (aggPc = "loop" /\ srcIdx > Len(enabledRiskSources)) => ENABLED ReturnResult
    /\ AllEnabledNull =>
          /\ riskResult.overallScore = Num(50)
          /\ riskResult.riskBucket = "Medium"
          /\ Len(riskResult.metadata.missingComponents) = Cardinality(EnabledIdx)
          /\ \A i \in EnabledIdx :
                \E j \in DOMAIN riskResult.metadata.missingComponents :
                    riskResult.metadata.missingComponents[j] = enabledRiskSources[i].name

\* two evaluators ran and both returned null
C3_Witness ==
    /\ AllEnabledNull
    /\ Cardinality(EnabledIdx) = 2
    /\ Len(riskResult.metadata.missingComponents) = 2

-----------------------------------------------------------------------------
(* Properties of calculatePortfolioRisk *)

\* calculatePortfolioRisk(id) has returned a result for a stored portfolio
Calculated(id) == portfolioRisk[id].called /\ portfolioRisk[id].found

\* the positions of the exposures of portfolio id whose currency is c
IdxOf(id, c) == {i \in DOMAIN portfolios[id] : CurrencyOf(portfolios[id][i]) = c}

\* the amounts, risks and buckets the exposures of a portfolio carry: the
\* overall score and bucket of the latest snapshot, 50 and Medium without one
AmountOf(id) == [i \in DOMAIN portfolios[id] |-> portfolios[id][i].exposureAmount]

RiskOf(id) ==
    [i \in DOMAIN portfolios[id] |->
        IF portfolios[id][i].airline.riskSnapshots = <<>> THEN Num(50)
        ELSE portfolios[id][i].airline.riskSnapshots[1].overallScore]

BucketOf(id) ==
    [i \in DOMAIN portfolios[id] |->
        IF portfolios[id][i].airline.riskSnapshots = <<>> THEN "Medium"
        ELSE portfolios[id][i].airline.riskSnapshots[1].riskBucket]

\* the largest share one exposure has of the total of currency c
LargestShare(id, c) ==
    LET total == RSumOver(AmountOf(id), IdxOf(id, c))
        top == CHOOSE i \in IdxOf(id, c) :
                  \A j \in IdxOf(id, c) : RLe(AmountOf(id)[j], AmountOf(id)[i])
    IN  RDiv(AmountOf(id)[top], total)

\* P holds of (id, c, perCurrency[c]) for every currency group of every
\* result that calculatePortfolioRisk has returned
EveryGroup(P(_, _, _)) ==
    \A id \in PortfolioIds :
        Calculated(id) =>
            \A c \in DOMAIN portfolioRisk[id].perCurrency :
                P(id, c, portfolioRisk[id].perCurrency[c])

SomeGroup(P(_, _, _)) ==
    \E id \in PortfolioIds :
        /\ Calculated(id)
        /\ \E c \in DOMAIN portfolioRisk[id].perCurrency :
              P(id, c, portfolioRisk[id].perCurrency[c])

\* C4: in every currency group maxConcentration is the largest share of one
\* exposure in the group's total, and the concentration penalty is 10 when it
\* is above 0.7, 5 when it is above 0.5 and at most 0.7, and 0 when it is at
\* most 0.5: exactly 0.5 gives 0 and exactly 0.7 gives 5.
C4_PenaltyThresholdsExclusive ==
    EveryGroup(LAMBDA id, c, r :
        LET mc == r.computed.maxConcentration
        IN  /\ mc = LargestShare(id, c)
            /\ RLt(Rat(7, 10), mc) => r.concentrationPenalty = 10
            /\ (RLt(Rat(5, 10), mc) /\ RLe(mc, Rat(7, 10))) => r.concentrationPenalty = 5
            /\ RLe(mc, Rat(5, 10)) => r.concentrationPenalty = 0)

\* a portfolio with a group at exactly 0.7 (penalty 5) and a group above 0.7
C4_Witness ==
    /\ SomeGroup(LAMBDA id, c, r :
          r.computed.maxConcentration = Rat(7, 10) /\ r.concentrationPenalty = 5)
    /\ SomeGroup(LAMBDA id, c, r :
          RLt(Rat(7, 10), r.computed.maxConcentration) /\ r.concentrationPenalty = 10)

\* a group at exactly 0.5 (penalty 0); a group below 0.5
C4_WitnessAtHalf ==
    SomeGroup(LAMBDA id, c, r :
        r.computed.maxConcentration = Rat(5, 10) /\ r.concentrationPenalty = 0)

C4_WitnessBelowHalf ==
    SomeGroup(LAMBDA id, c, r :
        RLt(r.computed.maxConcentration, Rat(5, 10)) /\ r.concentrationPenalty = 0)

\* the adjusted risk of a result r, computed and as returned, is
\* min(100, baseRisk + concentrationPenalty) and at most 100
ClampedAt100(r) ==
    /\ r.computed.adjustedRisk =
          RMin(Num(100), RAdd(r.computed.baseRisk, Num(r.concentrationPenalty)))
    /\ r.adjustedRisk = RMin(Num(100), RAdd(r.baseRisk, Num(r.concentrationPenalty)))
    /\ RLe(r.computed.adjustedRisk, Num(100))
    /\ RLe(r.adjustedRisk, Num(100))

\* base risk plus penalty is above 100 and the adjusted risk is 100
ClampApplies(r) ==
    /\ RLt(Num(100), RAdd(r.computed.baseRisk, Num(r.concentrationPenalty)))
    /\ r.adjustedRisk = Num(100)

\* C5: for every currency group and for every simulated scenario the adjusted
\* risk is min(100, baseRisk + concentrationPenalty), and it is never above
\* 100, neither as computed nor as returned.
C5_AdjustedRiskClampedAt100 ==
    /\ EveryGroup(LAMBDA id, c, r : ClampedAt100(r))
    /\ scenarioResult.called => ClampedAt100(scenarioResult)

\* a currency group and a scenario in which the clamp applies
C5_Witness ==
    /\ SomeGroup(LAMBDA id, c, r : ClampApplies(r))
    /\ scenarioResult.called
    /\ ClampApplies(scenarioResult)

\* the spec's example: 800,000 and 200,000 in one currency, both without a
\* snapshot and so both at risk 50
ExampleExposures ==
    <<[airline |-> [icao |-> "AAL", riskSnapshots |-> <<>>],
       exposureAmount |-> Num(800000), currency |-> "USD"],
      [airline |-> [icao |-> "DLH", riskSnapshots |-> <<>>],
       exposureAmount |-> Num(200000), currency |-> "USD"]>>

ExampleHolds ==
    LET r == NonEmptyPortfolioRisk(ExampleExposures).perCurrency["USD"]
    IN  /\ r.baseRisk = Num(50)
        /\ r.maxConcentration = Rat(8, 10)
        /\ r.concentrationPenalty = 10
        /\ r.adjustedRisk = Num(60)

C8_SameThresholdsAsAggregator ==
    EveryGroup(LAMBDA id, c, r :
        r.riskBucket = scoreToRiskBucket(r.computed.adjustedRisk, DEFAULT_RISK_CONFIG))

\* C8: the bucket of every currency group is High when its adjusted risk is
\* at least 70, Medium when it is at least 40 and below 70, and Low below 40;
\* it is the bucket scoreToRiskBucket gives except at exactly 40 (Medium, not
\* Low) and exactly 70 (High, not Medium).
C8_BucketLowerBoundsInclusive ==
    EveryGroup(LAMBDA id, c, r :
        LET adj == r.computed.adjustedRisk
        IN  /\ r.riskBucket =
                  IF RLe(Num(70), adj) THEN "High"
                  ELSE IF RLe(Num(40), adj) THEN "Medium" ELSE "Low"
            /\ (adj # Num(40) /\ adj # Num(70)) =>
                  r.riskBucket = scoreToRiskBucket(adj, DEFAULT_RISK_CONFIG)
            /\ adj = Num(40) =>
                  r.riskBucket # scoreToRiskBucket(adj, DEFAULT_RISK_CONFIG)
            /\ adj = Num(70) =>
                  r.riskBucket # scoreToRiskBucket(adj, DEFAULT_RISK_CONFIG))

\* a group at exactly 40, which is Medium where scoreToRiskBucket says Low
C8_Witness ==
    SomeGroup(LAMBDA id, c, r :
        /\ r.computed.adjustedRisk = Num(40)
        /\ r.adjustedRisk = Num(40)
        /\ r.riskBucket = "Medium"
        /\ scoreToRiskBucket(r.adjustedRisk, DEFAULT_RISK_CONFIG) = "Low")

\* a group at exactly 70, which is High where scoreToRiskBucket says Medium
C8_WitnessAtSeventy ==
    SomeGroup(LAMBDA id, c, r :
        /\ r.computed.adjustedRisk = Num(70)
        /\ r.riskBucket = "High"
        /\ scoreToRiskBucket(r.adjustedRisk, DEFAULT_RISK_CONFIG) = "Medium")

C10_BucketTotalsPartitionExposure ==
    EveryGroup(LAMBDA id, c, r :
        LET own(b) == {i \in IdxOf(id, c) : BucketOf(id)[i] = b}
        IN  /\ r.buckets.low = RSumOver(AmountOf(id), own("Low"))
            /\ r.buckets.medium = RSumOver(AmountOf(id), own("Medium"))
            /\ r.buckets.high = RSumOver(AmountOf(id), own("High"))
            /\ RAdd(RAdd(r.buckets.low, r.buckets.medium), r.buckets.high)
                  = r.totalExposure
            /\ r.totalExposure = RSumOver(AmountOf(id), IdxOf(id, c)))

\* a group bucketed High that holds a Low, a snapshot-less and a High exposure
C10_Witness ==
    SomeGroup(LAMBDA id, c, r :
        /\ r.riskBucket = "High"
        /\ RLt(Num(0), r.buckets.low)
        /\ RLt(Num(0), r.buckets.high)
        /\ \E i \in IdxOf(id, c) : portfolios[id][i].airline.riskSnapshots = <<>>)

\* the exposures of portfolio id whose currency is c, in their order
ExposuresIn(id, c) == SelectSeq(portfolios[id], LAMBDA e : CurrencyOf(e) = c)

\* C6: the CurrencyRiskResult of a currency is a function of the exposures of
\* that currency only: two portfolios with the same exposures in c, whatever
\* their exposures in other currencies, get the same perCurrency[c]; a
\* currency is a key of perCurrency exactly when the portfolio has an exposure
\* in it; and the total and the rows of a currency are those of its own
\* exposures, amounts of other currencies never being added in.
C6_PerCurrencyIsolation ==
    /\ (Calculated("P1") /\ Calculated("P2")) =>
          \A c \in Currencies :
              (ExposuresIn("P1", c) = ExposuresIn("P2", c) /\ ExposuresIn("P1", c) # <<>>) =>
                  /\ c \in DOMAIN portfolioRisk["P1"].perCurrency
                  /\ c \in DOMAIN portfolioRisk["P2"].perCurrency
                  /\ portfolioRisk["P1"].perCurrency[c] = portfolioRisk["P2"].perCurrency[c]
    /\ \A id \in PortfolioIds :
          Calculated(id) =>
              DOMAIN portfolioRisk[id].perCurrency
                  = {c \in Currencies : ExposuresIn(id, c) # <<>>}
    /\ EveryGroup(LAMBDA id, c, r :
          /\ r.computed.totalExposure = RSumOver(AmountOf(id), IdxOf(id, c))
          /\ Len(r.rows) = Len(ExposuresIn(id, c))
          /\ \A k \in DOMAIN r.rows :
                \E i \in IdxOf(id, c) :
                    /\ r.rows[k].airline.icao = portfolios[id][i].airline.icao
                    /\ r.rows[k].exposure = AmountOf(id)[i])

\* two calculated portfolios with the same exposures in EUR and different
\* totals in USD: the EUR results are equal, the USD results are not
C6_Witness ==
    /\ Calculated("P1") /\ Calculated("P2")
    /\ ExposuresIn("P1", "EUR") = ExposuresIn("P2", "EUR")
    /\ ExposuresIn("P1", "EUR") # <<>>
    /\ ExposuresIn("P1", "USD") # <<>>
    /\ ExposuresIn("P2", "USD") # <<>>
    /\ portfolioRisk["P1"].perCurrency["EUR"] = portfolioRisk["P2"].perCurrency["EUR"]
    /\ portfolioRisk["P1"].perCurrency["USD"].totalExposure
          # portfolioRisk["P2"].perCurrency["USD"].totalExposure

\* the place of a currency code in ascending order of its UTF-16 code units
CodeUnitRank == [c \in Currencies |-> IF c = "EUR" THEN 1 ELSE 2]

\* C11: for every stored portfolio the call returns a result; currencies is strictly
\* ascending (sorted, no duplicates), its elements are exactly the keys of
\* perCurrency, and these are exactly the currencies of the exposures; for a
\* portfolio without exposures perCurrency and currencies are empty, the
\* legacy fields are zero and the bucket is Low.
C11_CurrenciesSortedKeySet ==
    /\ \A id \in DOMAIN portfolios :
          portfolioRisk[id].called => portfolioRisk[id].found
    /\ \A id \in PortfolioIds :
          Calculated(id) =>
              LET r  == portfolioRisk[id]
                  cs == r.currencies
              IN  /\ \A i, j \in DOMAIN cs :
                        i < j => CodeUnitRank[cs[i]] < CodeUnitRank[cs[j]]
                  /\ {cs[i] : i \in DOMAIN cs} = DOMAIN r.perCurrency
                  /\ DOMAIN r.perCurrency =
                        {CurrencyOf(portfolios[id][i]) : i \in DOMAIN portfolios[id]}
                  /\ Len(portfolios[id]) = 0 =>
                        /\ r.perCurrency = <<>>
                        /\ cs = <<>>
                        /\ r.totalExposure = Num(0)
                        /\ r.baseRisk = Num(0)
                        /\ r.adjustedRisk = Num(0)
                        /\ r.portfolioRisk = Num(0)
                        /\ r.concentrationPenalty = 0
                        /\ r.maxConcentration = Num(0)
                        /\ r.buckets = [low |-> Num(0), medium |-> Num(0), high |-> Num(0)]
                        /\ r.topExposures = <<>>
                        /\ r.riskBucket = "Low"

\* an empty portfolio and a portfolio whose first exposure is in USD and whose
\* second is in EUR, both calculated
C11_Witness ==
    /\ Calculated("P1") /\ Calculated("P2")
    /\ Len(portfolios["P1"]) = 0
    /\ portfolioRisk["P1"].currencies = <<>>
    /\ Len(portfolios["P2"]) = 2
    /\ CurrencyOf(portfolios["P2"][1]) = "USD"
    /\ CurrencyOf(portfolios["P2"][2]) = "EUR"
    /\ portfolioRisk["P2"].currencies = <<"EUR", "USD">>

-----------------------------------------------------------------------------
(* Properties of calculateScenarioRisk *)

\* the rows the formula is applied to: the modification applied, then the
\* rows with amount > 0
EffectiveRows(input) ==
    SelectSeq(ApplyModification(input.exposures, input.modification),
              LAMBDA e : RLt(Num(0), e.exposure))

\* C12: after a call of calculateScenarioRisk, with or without modification,
\* matched or not, whatever the new amount, input.exposures has the same
\* length and refers to the same row objects in the same order, and every
\* one of these objects has the field values it had before the call; the
\* modification and the filter show in the arrays the call created.
C12_InputNotMutated ==
    scenarioResult.called =>
        /\ Len(scenarioMemory.arrays[1]) = Len(scenarioInput.exposures)
        /\ \A i \in DOMAIN scenarioMemory.arrays[1] : scenarioMemory.arrays[1][i] = i
        /\ \A i \in DOMAIN scenarioInput.exposures :
              scenarioMemory.objects[i] = scenarioInput.exposures[i]
        /\ Deref(scenarioMemory, 3) = EffectiveRows(scenarioInput)
        /\ Len(scenarioMemory.arrays) = 4 =>
              scenarioResult.topExposures = Deref(scenarioMemory, 4)

\* a call with two rows whose modification matches a row and changes its
\* amount: the changed row is a new object
C12_Witness ==
    /\ scenarioResult.called
    /\ Len(scenarioInput.exposures) = 2
    /\ scenarioInput.modification # NoModification
    /\ \E i \in DOMAIN scenarioInput.exposures :
          /\ FindIndex(scenarioInput.exposures,
                       scenarioInput.modification.airlineIcao, 1) = i
          /\ scenarioInput.exposures[i].exposure = Num(3)
          /\ scenarioInput.modification.newExposure = Num(7)
          /\ scenarioMemory.arrays[2][i] > Len(scenarioInput.exposures)
          /\ scenarioMemory.objects[scenarioMemory.arrays[2][i]].exposure = Num(7)
          /\ scenarioMemory.objects[i].exposure = Num(3)

\* the input of the call without its modification
WithoutModification(input) == [input EXCEPT !.modification = NoModification]

\* the modification names an airline that no row of the input has
Unmatched(input) ==
    /\ input.modification # NoModification
    /\ FindIndex(input.exposures, input.modification.airlineIcao, 1) = -1

\* C13: a call whose modification names an airline matching no row returns
\* a result (no error) that is exactly the result of the same call without
\* modification.
C13_UnmatchedModificationIgnored ==
    (scenarioResult.called /\ Unmatched(scenarioInput)) =>
        scenarioResult = calculateScenarioRisk(WithoutModification(scenarioInput))

\* a call on two rows with positive amounts whose modification names a third
\* airline with a positive new amount
C13_Witness ==
    /\ scenarioResult.called
    /\ Unmatched(scenarioInput)
    /\ scenarioInput.modification.newExposure = Num(7)
    /\ Len(scenarioInput.exposures) = 2
    /\ \A i \in DOMAIN scenarioInput.exposures :
          RLt(Num(0), scenarioInput.exposures[i].exposure)
    /\ Len(scenarioResult.topExposures) = 2

\* the currency group whose exposures have the amounts and the airline risks
\* of the rows, in the order of the rows
GroupOfRows(input) ==
    [i \in DOMAIN input.exposures |->
        [airline |-> [icao |-> input.exposures[i].airlineIcao,
                      riskSnapshots |->
                          <<[overallScore |-> input.exposures[i].risk,
                             riskBucket |-> input.exposures[i].riskBucket]>>],
         exposureAmount |-> input.exposures[i].exposure,
         currency |-> input.currency]]

\* rows of one currency, all amounts > 0, no modification
PlainInput(input) ==
    /\ input.modification = NoModification
    /\ Len(input.exposures) >= 1
    /\ \A i \in DOMAIN input.exposures : RLt(Num(0), input.exposures[i].exposure)

\* C14: for rows of one currency with all amounts > 0 and no modification,
\* calculateScenarioRisk returns the totalExposure, baseRisk, maxConcentration,
\* concentrationPenalty, adjustedRisk and riskBucket that calculatePortfolioRisk
\* computes for the currency group with the same amounts and risks, both as
\* returned (rounded) and before the rounding.
C14_ScenarioReappliesPortfolioFormula ==
    (scenarioResult.called /\ PlainInput(scenarioInput)) =>
        LET group == CurrencyRisk(GroupOfRows(scenarioInput))
        IN  /\ scenarioResult.totalExposure = group.totalExposure
            /\ scenarioResult.baseRisk = group.baseRisk
            /\ scenarioResult.maxConcentration = group.maxConcentration
            /\ scenarioResult.concentrationPenalty = group.concentrationPenalty
            /\ scenarioResult.adjustedRisk = group.adjustedRisk
            /\ scenarioResult.riskBucket = group.riskBucket
            /\ scenarioResult.computed = group.computed

\* a call on two plain rows whose largest share is exactly 0.7 and whose
\* base risk is 70: penalty 5 and bucket High in both calculators
C14_Witness ==
    /\ scenarioResult.called
    /\ PlainInput(scenarioInput)
    /\ Len(scenarioInput.exposures) = 2
    /\ scenarioResult.computed.maxConcentration = Rat(7, 10)
    /\ scenarioResult.computed.baseRisk = Num(70)
    /\ scenarioResult.concentrationPenalty = 5
    /\ scenarioResult.riskBucket = "High"
    /\ CurrencyRisk(GroupOfRows(scenarioInput)).concentrationPenalty = 5

-----------------------------------------------------------------------------
(* Properties of the evaluators *)

\* the financial evaluator was run and the result is returned
FinancialEvaluated == Returned /\ enabled["financial"]

\* C15: for every airline context without a market ticker (airline.ticker
\* absent), whatever the ICAO code, the financial evaluator returns score null
\* with confidence LOW.
C15_NoTickerFieldGivesNullLow ==
    (FinancialEvaluated /\ context.airline.ticker = NullTicker) =>
        /\ IsNull(riskResult.components["financial"].score)
        /\ riskResult.components["financial"].confidence = "LOW"

\* the airline context has no ticker, its ICAO code is in the icaoToTicker
\* table, and the financial evaluator returned a score
C15_ScoredWithoutTickerField ==
    /\ FinancialEvaluated
    /\ context.airline.ticker = NullTicker
    /\ context.airline.icao = "AAL"
    /\ ~IsNull(riskResult.components["financial"].score)
    /\ riskResult.components["financial"].confidence = "MEDIUM"

\* the result of an aggregation over the four default evaluators
DefaultEvaluatorsReturned == Returned /\ \A k \in SourceKeys : enabled[k]

\* the effective weights of the available breakdown entries sum to 1
EffectiveWeightsSumToOne ==
    LET bd == riskResult.breakdown
    IN  RSumOver([i \in DOMAIN bd |-> bd[i].effectiveWeight], AvailableIdx(bd)) = Num(1)

C16_WitnessInactive ==
    /\ DefaultEvaluatorsReturned
    /\ context.airline.icao = "UAE"
    /\ ~context.airline.active
    /\ totalAvailableWeight = Rat(65, 100)
    /\ riskResult.breakdown[3].effectiveWeight = Rat(20, 65)

\* the call of calculateAirlineRisk failed while evaluating a source
Rejected == aggPc = "rejected"

\* C17: if an evaluator raises an unexpected error, no RiskResult is returned
\* and the call fails with an EvaluatorFailure naming the key of the evaluator
\* that failed.
C17_FailsWithEvaluatorFailure ==
    Rejected =>
        /\ riskResult = NoResult
        /\ rejection.name = "EvaluatorFailure"
        /\ rejection.evaluator = CurrentSource.key

\* the financial evaluator threw a TypeError: the call is rejected with that
\* TypeError, which names no evaluator
C17_RawErrorPropagates ==
    /\ Rejected
    /\ CurrentSource.key = "financial"
    /\ riskResult = NoResult
    /\ rejection.name = "TypeError"
    /\ rejection.evaluator = "undefined"

\* the component score stored for the source k is (score, confidence)
ComponentIs(k, score, confidence) ==
    /\ allComponents[k].score = score
    /\ allComponents[k].confidence = confidence

\* the fleet size is absent or 0
FleetUnknown ==
    IsNull(context.airline.fleetSize) \/ context.airline.fleetSize = Num(0)

\* the financial evaluator found no ticker for the ICAO code, or the
\* fundamentals provider answered null
NoTickerOrNoFundamentals ==
    \/ getTickerFromIcao(context.airline.icao) = NullTicker
    \/ fundamentals = NoFundamentals

-----------------------------------------------------------------------------
(* Properties of normalizeScore *)

\* normalizeScore was called with min < max
CalledWithProperRange ==
    normalizeOutcome.called /\ RLt(normalizeInput.min, normalizeInput.max)

\* what the call returns before the inversion is undone
Uninverted ==
    IF normalizeInput.invert
    THEN RSub(Num(100), normalizeOutcome.returned)
    ELSE normalizeOutcome.returned

\* C19: for min < max, normalizeScore(value, min, max) lies in [0, 100], is
\* the linear value (value - min) * 100 / (max - min) for min <= value <= max,
\* 0 below min and 100 above max; with invert the result is 100 minus the
\* result without invert.
C19_NormalizeLinearClampedInvert ==
    CalledWithProperRange =>
        LET value == normalizeInput.value
            min == normalizeInput.min
            max == normalizeInput.max
            out == normalizeOutcome.returned
        IN  /\ normalizeOutcome.raised = "none"
            /\ out # NaN
            /\ RLe(Num(0), out) /\ RLe(out, Num(100))
            /\ (RLe(min, value) /\ RLe(value, max)) =>
                  RMul(Uninverted, RSub(max, min)) = RMul(RSub(value, min), Num(100))
            /\ RLt(value, min) => Uninverted = Num(0)
            /\ RLt(max, value) => Uninverted = Num(100)
            /\ normalizeInput.invert =>
                  out = RSub(Num(100), normalizeScore(value, min, max, FALSE))

\* an inverted call strictly inside the range: 45 in [25, 65] gives 100 - 50
C19_Witness ==
    /\ CalledWithProperRange
    /\ normalizeInput = [value |-> Num(45), min |-> Num(25), max |-> Num(65),
                         invert |-> TRUE]
    /\ normalizeOutcome.returned = Num(50)

\* a call above the range: 120 in [0, 100] is clamped to 100
C19_WitnessClamped ==
    /\ CalledWithProperRange
    /\ normalizeInput = [value |-> Num(120), min |-> Num(0), max |-> Num(100),
                         invert |-> FALSE]
    /\ normalizeOutcome.returned = Num(100)

\* C20: a call of the normalizer with min = max yields InvalidRangeError for
\* every value; it never returns a number or NaN.
C20_EqualLimitsRaiseInvalidRange ==
    (normalizeOutcome.called /\ normalizeInput.min = normalizeInput.max) =>
        normalizeOutcome.raised = "InvalidRangeError"

\* min = max = value: the call returns NaN
C20_ReturnsNaN ==
    /\ normalizeOutcome.called
    /\ normalizeInput.min = normalizeInput.max
    /\ normalizeInput.value = normalizeInput.min
    /\ normalizeOutcome.raised = "none"
    /\ normalizeOutcome.returned = NaN

\* min = max < value: the call returns 100, or 0 with invert
C20_ReturnsNumber ==
    /\ normalizeOutcome.called
    /\ normalizeInput.min = normalizeInput.max
    /\ RLt(normalizeInput.min, normalizeInput.value)
    /\ normalizeInput.invert
    /\ normalizeOutcome.raised = "none"
    /\ normalizeOutcome.returned = Num(0)

-----------------------------------------------------------------------------
(* Properties of computeFinancialRisk *)

\* the debt-to-equity band of the specification: <1 0, <2 20, <3 40, <5 70,
\* else min(100, 90 + 5 (d - 5))
DebtSubScore(d) ==
    CASE RLt(d, Num(1)) -> Num(0)
      [] RLe(Num(1), d) /\ RLt(d, Num(2)) -> Num(20)
      [] RLe(Num(2), d) /\ RLt(d, Num(3)) -> Num(40)
      [] RLe(Num(3), d) /\ RLt(d, Num(5)) -> Num(70)
      [] RLe(Num(5), d) ->
            RMin(Num(100), RAdd(Num(90), RMul(Num(5), RSub(d, Num(5)))))

\* the profitability band of the specification
ProfitSubScore(m) ==
    CASE RLt(m, Num(0)) -> RMin(Num(100), RAdd(Num(80), RMul(Num(5), RSub(Num(0), m))))
      [] RLe(Num(0), m) /\ RLt(m, Num(2)) -> RSub(Num(60), RMul(Num(10), m))
      [] RLe(Num(2), m) /\ RLt(m, Num(5)) ->
            RSub(Num(40), RMul(Rat(667, 100), RSub(m, Num(2))))
      [] RLe(Num(5), m) /\ RLt(m, Num(10)) ->
            RSub(Num(20), RMul(Num(3), RSub(m, Num(5))))
      [] RLe(Num(10), m) ->
            RMax(Num(0), RSub(Num(5), RMul(Rat(1, 2), RSub(m, Num(10)))))

\* the liquidity band of the specification: >=1 0, >=0.5 20, >=0.3 40,
\* >=0.1 70, else 90
LiquiditySubScore(c) ==
    CASE RLe(Num(1), c) -> Num(0)
      [] RLe(Rat(1, 2), c) /\ RLt(c, Num(1)) -> Num(20)
      [] RLe(Rat(3, 10), c) /\ RLt(c, Rat(1, 2)) -> Num(40)
      [] RLe(Rat(1, 10), c) /\ RLt(c, Rat(3, 10)) -> Num(70)
      [] RLt(c, Rat(1, 10)) -> Num(90)

\* 0.4 debt + 0.4 profit + 0.2 liquidity
Blend(f) ==
    RAdd(RAdd(RMul(Rat(4, 10), DebtSubScore(f.debtToEquity)),
              RMul(Rat(4, 10), ProfitSubScore(f.profitMargin))),
         RMul(Rat(2, 10), LiquiditySubScore(f.cashToDebt)))

\* computeFinancialRisk was called on the American Airlines mock profile
CalledOnAAL ==
    /\ financialOutcome.called
    /\ financialInput.debtToEquity = MockAAL.debtToEquity
    /\ financialInput.profitMargin = MockAAL.profitMargin
    /\ financialInput.cashToDebt = MockAAL.cashToDebt

\* C21 as stated: the financial score is the blend of the three banded
\* sub-scores clamped to [0, 100] and rounded to one decimal, and for the
\* American Airlines mock profile it is approximately 43.7 (within 0.05).
C21_BlendAndAALScore43_7 ==
    /\ financialOutcome.called =>
          financialOutcome.score =
              RoundTo(RMax(Num(0), RMin(Num(100), Blend(financialInput))), 10)
    /\ CalledOnAAL =>
          /\ RLe(Rat(4365, 100), financialOutcome.score)
          /\ RLe(financialOutcome.score, Rat(4375, 100))

\* C21: the financial score is the blend of the three banded sub-scores
\* clamped to [0, 100] and rounded to one decimal; for the American Airlines
\* mock profile the sub-scores are 91.25, 34.1304 and 70 and the score is 64.2.
C21_BlendAndAALScore64_2 ==
    /\ financialOutcome.called =>
          /\ financialOutcome.score =
                RoundTo(RMax(Num(0), RMin(Num(100), Blend(financialInput))), 10)
          /\ RLe(Num(0), financialOutcome.score)
          /\ RLe(financialOutcome.score, Num(100))
          /\ RoundTo(financialOutcome.score, 10) = financialOutcome.score
    /\ CalledOnAAL =>
          /\ DebtSubScore(financialInput.debtToEquity) = Rat(9125, 100)
          /\ ProfitSubScore(financialInput.profitMargin) = Rat(341304, 10000)
          /\ LiquiditySubScore(financialInput.cashToDebt) = Num(70)
          /\ financialOutcome.score = Rat(642, 10)

\* the call on the American Airlines mock profile returned 64.2
C21_Witness ==
    /\ CalledOnAAL
    /\ financialOutcome.score = Rat(642, 10)

\* a call with a cash-to-debt ratio on a band limit
C21_WitnessBandLimit ==
    /\ financialOutcome.called
    /\ financialInput.cashToDebt = Rat(3, 10)
    /\ financialInput.debtToEquity = Num(5)
    /\ financialInput.profitMargin = Num(-5)
    /\ financialOutcome.score = Num(84)

-----------------------------------------------------------------------------
(* Properties of the aggregator's steps *)

\* the step is the loop iteration that ran the financial evaluator
FinancialStep ==
    /\ aggPc = "loop"
    /\ srcIdx <= Len(enabledRiskSources)
    /\ CurrentSource.key = "financial"
    /\ enabled["financial"]
    /\ srcIdx' = srcIdx + 1
    /\ "financial" \in DOMAIN allComponents'

\* C25: a step of calculateAirlineRisk never changes context.airline or
\* context.countryInfo, and it changes the context only in the iteration
\* that ran the financial evaluator, where context.financialData becomes the
\* metadata of the financial component just stored; no source runs between
\* the evaluator's return and the back-fill.
C25_OnlyFinancialBackFill ==
    [][/\ context'.airline = context.airline
       /\ context'.countryInfo = context.countryInfo
       /\ context' # context =>
             /\ FinancialStep
             /\ context'.financialData = allComponents'["financial"].metadata]_vars

\* a returned result whose context carries the financial metadata while the
\* jurisdiction and scale evaluators ran before it
C25_Witness ==
    /\ DefaultEvaluatorsReturned
    /\ context.financialData # NoFinancialData
    /\ context.financialData = riskResult.components["financial"].metadata
    /\ riskResult.context = context


\* the keys of the enabled sources among the first n of enabledRiskSources, in
\* declaration order
RECURSIVE EnabledKeysUpTo(_)
EnabledKeysUpTo(n) ==
    IF n = 0 THEN <<>>
    ELSE IF enabled[enabledRiskSources[n].key]
         THEN Append(EnabledKeysUpTo(n - 1), enabledRiskSources[n].key)
         ELSE EnabledKeysUpTo(n - 1)

\* the keys of a breakdown, in its order
BreakdownKeys(bd) == [i \in DOMAIN bd |-> bd[i].key]

\* the sources whose calculate has returned are exactly the enabled sources
\* before the loop's position, and the breakdown lists them once each, in
\* declaration order
EvaluatedInOrder ==
    /\ srcIdx \in 1..(Len(enabledRiskSources) + 1)
    /\ BreakdownKeys(breakdown) = EnabledKeysUpTo(srcIdx - 1)
    /\ DOMAIN allComponents =
          {enabledRiskSources[i].key : i \in EnabledIdx \cap 1..(srcIdx - 1)}
    /\ Returned =>
          /\ srcIdx = Len(enabledRiskSources) + 1
          /\ BreakdownKeys(riskResult.breakdown) =
                EnabledKeysUpTo(Len(enabledRiskSources))
    /\ Rejected =>
          /\ srcIdx <= Len(enabledRiskSources)
          /\ enabled[CurrentSource.key]
          /\ CurrentSource.key \notin DOMAIN allComponents

\* a step of the call: it starts inside the loop, it either passes to the next
\* source or ends the call, an evaluator that returns adds one breakdown entry
\* for its source, a disabled source and a failing evaluator add none
OneSourcePerStep ==
    /\ aggPc = "loop"
    /\ \/ /\ srcIdx' = srcIdx + 1
          /\ aggPc' = "loop"
          /\ IF enabled[CurrentSource.key]
             THEN /\ Len(breakdown') = Len(breakdown) + 1
                  /\ breakdown'[Len(breakdown')].key = CurrentSource.key
                  /\ DOMAIN allComponents' =
                        DOMAIN allComponents \cup {CurrentSource.key}
             ELSE /\ breakdown' = breakdown
                  /\ allComponents' = allComponents
       \/ /\ srcIdx' = srcIdx
          /\ aggPc' \in {"done", "rejected"}
          /\ allComponents' = allComponents
          /\ BreakdownKeys(breakdown') = BreakdownKeys(breakdown)

\* C26: calculateAirlineRisk runs the evaluators one after the other in the
\* order of enabledRiskSources: every enabled evaluator is invoked exactly
\* once, a disabled one never, the breakdown has one entry per enabled
\* evaluator in that order, and once an evaluator has failed the call takes
\* no further step: the evaluator is not retried and no later one is started.
C26_SequentialOnceInOrder ==
    []EvaluatedInOrder /\ [][OneSourcePerStep]_vars

\* a returned result with one evaluator disabled and the others in order
C26_Witness ==
    /\ Returned
    /\ ~enabled["scale"]
    /\ BreakdownKeys(riskResult.breakdown) =
          <<"jurisdiction", "assetLiquidity", "financial">>

\* a call rejected by the second evaluator: the first one ran, no later one
C26_WitnessRejected ==
    /\ Rejected
    /\ srcIdx = 2
    /\ BreakdownKeys(breakdown) = <<"jurisdiction">>
    /\ \A k \in SourceKeys : enabled[k]


-----------------------------------------------------------------------------
(* Properties of the override of calculateScenarioRisk *)

\* the position of the row the modification of the input overrides, -1 if none
OverriddenIndex(input) ==
    IF input.modification = NoModification THEN -1
    ELSE FindIndex(input.exposures, input.modification.airlineIcao, 1)

\* the amount of row j once the modification is applied
AmountAfterOverride(input, j) ==
    IF j = OverriddenIndex(input) THEN input.modification.newExposure
    ELSE input.exposures[j].exposure

\* the positions of the rows whose amount after the override is positive
KeptRows(input) ==
    {j \in DOMAIN input.exposures : RLt(Num(0), AmountAfterOverride(input, j))}

\* the largest amount after the override among the rows of S, S not empty
RECURSIVE MaxAmountOver(_, _)
MaxAmountOver(input, S) ==
    LET j == CHOOSE x \in S : TRUE
    IN  IF S = {j} THEN AmountAfterOverride(input, j)
        ELSE RMax(AmountAfterOverride(input, j), MaxAmountOver(input, S \ {j}))

\* the number of entries of topExposures with the airline and amount given
TopEntries(top, icao, amount) ==
    Cardinality({i \in DOMAIN top :
                    top[i].airlineIcao = icao /\ top[i].exposure = amount})

\* C27: calculateScenarioRisk overrides the amount of at most one row, the
\* first whose airline matches the modification, and applies the formula to
\* the rows whose amount after the override is positive: totalExposure is
\* their sum, maxConcentration the share of the largest of them, topExposures
\* has one entry per such row; a row overridden to 0 or less counts in none
\* of the three (its airline is absent from topExposures unless another row
\* names it), and when no row is left the result is all zeros, bucket Low,
\* topExposures empty.
C27_OverrideFirstMatchThenFilter ==
    scenarioResult.called =>
        LET input == scenarioInput
            kept == KeptRows(input)
            total == RSumOver([j \in DOMAIN input.exposures |->
                                  AmountAfterOverride(input, j)], kept)
            top == scenarioResult.topExposures
            idx == OverriddenIndex(input)
        IN  /\ scenarioResult.computed.totalExposure = total
            /\ Len(top) = Cardinality(kept)
            /\ \A j \in kept :
                  TopEntries(top, input.exposures[j].airlineIcao,
                             AmountAfterOverride(input, j)) =
                  Cardinality({k \in kept :
                      /\ input.exposures[k].airlineIcao = input.exposures[j].airlineIcao
                      /\ AmountAfterOverride(input, k) = AmountAfterOverride(input, j)})
            /\ kept # {} =>
                  scenarioResult.computed.maxConcentration =
                      RDiv(MaxAmountOver(input, kept), total)
            /\ (idx >= 1 /\ RLe(input.modification.newExposure, Num(0))) =>
                  /\ idx \notin kept
                  /\ (\A k \in DOMAIN input.exposures :
                         k # idx =>
                             input.exposures[k].airlineIcao #
                                 input.modification.airlineIcao)
                     => \A i \in DOMAIN top :
                            top[i].airlineIcao # input.modification.airlineIcao
            /\ kept = {} =>
                  /\ scenarioResult.totalExposure = Num(0)
                  /\ scenarioResult.baseRisk = Num(0)
                  /\ scenarioResult.adjustedRisk = Num(0)
                  /\ scenarioResult.concentrationPenalty = 0
                  /\ scenarioResult.maxConcentration = Num(0)
                  /\ scenarioResult.riskBucket = "Low"
                  /\ top = <<>>

\* two rows of the same airline with positive amounts, the airline overridden
\* to 0: the first row is dropped, the second stays
C27_Witness ==
    /\ scenarioResult.called
    /\ Len(scenarioInput.exposures) = 2
    /\ scenarioInput.exposures[1].airlineIcao = "AAL"
    /\ scenarioInput.exposures[2].airlineIcao = "AAL"
    /\ scenarioInput.exposures[1].exposure = Num(7)
    /\ scenarioInput.exposures[2].exposure = Num(3)
    /\ scenarioInput.modification = [airlineIcao |-> "AAL", newExposure |-> Num(0)]
    /\ scenarioResult.totalExposure = Num(3)
    /\ Len(scenarioResult.topExposures) = 1

\* the only positive row overridden to a negative amount: nothing is left
C27_WitnessAllZero ==
    /\ scenarioResult.called
    /\ Len(scenarioInput.exposures) = 2
    /\ scenarioInput.exposures[1].exposure = Num(7)
    /\ scenarioInput.exposures[2].exposure = Num(0)
    /\ OverriddenIndex(scenarioInput) = 1
    /\ scenarioInput.modification.newExposure = Num(-1)
    /\ scenarioResult.totalExposure = Num(0)
    /\ scenarioResult.topExposures = <<>>


-----------------------------------------------------------------------------
(* Properties of the bucket of a RiskResult *)

\* C29: in every result calculateAirlineRisk returns, riskBucket is the bucket
\* of the overallScore reported, the score rounded to one decimal.
C29_BucketOfReportedScore ==
    Returned =>
        riskResult.riskBucket =
            scoreToRiskBucket(riskResult.overallScore, DEFAULT_RISK_CONFIG)

\* the average 40.04375 of jurisdiction 25, scale 15 and financial 65.1 over
\* the available weight 0.8: reported as 40 with the bucket of 40.04375
C29_RoundsAcrossThreshold ==
    /\ Returned
    /\ OverallScore(totalWeightedScore, totalAvailableWeight) = Rat(640700, 16000)
    /\ riskResult.overallScore = Num(40)
    /\ riskResult.riskBucket = "Medium"
    /\ scoreToRiskBucket(riskResult.overallScore, DEFAULT_RISK_CONFIG) = "Low"


-----------------------------------------------------------------------------
(* Properties of the snapshot cache *)

\* caller p's call has returned a RiskResult
HasReturned(p) == calls[p].pc = "returned"

\* C22: snapshot writes are overwrites: whatever recomputations have happened,
\* one after the other or at the same time, the store holds what a single
\* write of the last result leaves, at most one snapshot of the airline.
C22_StoreHoldsLastWriteOnly ==
    riskSnapshots =
        IF riskSnapshots = <<>> THEN <<>>
        ELSE <<riskSnapshots[Len(riskSnapshots)]>>

\* two calls at the same time, both calculated, both wrote: two rows with the
\* same calculatedAt and different scores
C22_ConcurrentWritesKeepBoth ==
    /\ \A p \in Callers : HasReturned(p) /\ calls[p].writes = 1 /\ calls[p].started = 1
    /\ Len(riskSnapshots) = 2
    /\ riskSnapshots[1].calculatedAt = riskSnapshots[2].calculatedAt
    /\ riskSnapshots[1].overallScore # riskSnapshots[2].overallScore

\* two calls of one caller more than 6 hours apart: the old row stays
C22_SequentialWritesKeepBoth ==
    /\ calls[1].started = 2
    /\ calls[2].started = 0
    /\ HasReturned(1)
    /\ Len(riskSnapshots) = 2
    /\ riskSnapshots[1].calculatedAt < riskSnapshots[2].calculatedAt

\* C23: two calls of getOrCalculateAirlineRisk for the same airline at the
\* same time are tolerated, also when the airline is not in the store yet:
\* no call is rejected, each one that completes returns a RiskResult.
C23_NoCallRejected ==
    \A p \in Callers :
        /\ calls[p].pc # "rejected"
        /\ HasReturned(p) => calls[p].riskResult # NoResult

\* both callers found no airline row; the first created it and returned a
\* result, the create of the second was refused
C23_SecondCreateRejected ==
    \E p, q \in Callers :
        /\ HasReturned(p)
        /\ calls[p].riskResult # NoResult
        /\ calls[q].pc = "rejected"
        /\ calls[q].started = 1
        /\ calls[q].riskResult = NoResult


\* the snapshot the call read was calculated less than 6 hours before the
\* time the call took as now
ReadRecentSnapshot(p) ==
    /\ calls[p].latestSnapshot # NoSnapshot
    /\ calls[p].now - calls[p].latestSnapshot.calculatedAt
           < CACHE_DURATION_HOURS * 60 * 60 * 1000

\* the call returned the score and bucket of the snapshot it read, without
\* running the aggregator and without writing
ReturnedStored(p) ==
    /\ calls[p].fromCache
    /\ calls[p].riskResult.overallScore = calls[p].latestSnapshot.overallScore
    /\ calls[p].riskResult.riskBucket = calls[p].latestSnapshot.riskBucket
    /\ calls[p].runs = 0
    /\ calls[p].attempts = 0
    /\ calls[p].writes = 0

\* C24 as stated: a call that returns reuses the stored result if and only
\* if the latest snapshot was calculated less than 6 hours before now, and
\* then neither runs the aggregator nor writes; otherwise it runs the
\* aggregator exactly once and stores exactly one new snapshot.
C24_ReuseElseOneRunOneSnapshot ==
    \A p \in Callers :
        HasReturned(p) =>
            IF ReadRecentSnapshot(p) THEN ReturnedStored(p)
            ELSE /\ ~calls[p].fromCache
                 /\ calls[p].runs = 1
                 /\ calls[p].writes = 1

\* C24: a call that returns reuses the stored result if and only if the
\* latest snapshot was calculated less than 6 hours before now, and then
\* neither runs the aggregator nor writes; otherwise it runs the aggregator
\* exactly once and makes exactly one attempt to store a new snapshot, which
\* stores one row or, when the write fails, none.
C24_ReuseElseOneRunOneAttempt ==
    \A p \in Callers :
        HasReturned(p) =>
            IF ReadRecentSnapshot(p) THEN ReturnedStored(p)
            ELSE /\ ~calls[p].fromCache
                 /\ calls[p].runs = 1
                 /\ calls[p].attempts = 1
                 /\ calls[p].writes \in {0, 1}
                 /\ calls[p].riskResult.calculatedAt >= calls[p].now

\* a call that returned the snapshot stored 3 hours earlier
C24_Witness ==
    \E p \in Callers :
        /\ HasReturned(p)
        /\ calls[p].fromCache
        /\ calls[p].now - calls[p].latestSnapshot.calculatedAt = 3 * 60 * 60 * 1000
        /\ calls[p].riskResult.overallScore = calls[p].latestSnapshot.overallScore

\* a call that read a snapshot calculated exactly 6 hours earlier: it ran the
\* aggregator and stored a second row
C24_WitnessSixHours ==
    \E p \in Callers :
        /\ HasReturned(p)
        /\ calls[p].latestSnapshot # NoSnapshot
        /\ calls[p].now - calls[p].latestSnapshot.calculatedAt = 6 * 60 * 60 * 1000
        /\ calls[p].runs = 1
        /\ calls[p].writes = 1

\* a call that ran the aggregator and returned although its write failed
C24_WriteFailed ==
    \E p \in Callers :
        /\ HasReturned(p)
        /\ calls[p].runs = 1
        /\ calls[p].attempts = 1
        /\ calls[p].writes = 0
        /\ calls[p].riskResult # NoResult
        /\ riskSnapshots = <<>>


\* C28: a result rebuilt from a stored snapshot is never returned after its
\* own expiry: its expiresAt, calculatedAt plus the configured cache
\* duration, is not earlier than the time the call took as now.
C28_ServedOnlyBeforeExpiry ==
    \A p \in Callers :
        (HasReturned(p) /\ calls[p].fromCache) =>
            /\ calls[p].riskResult.expiresAt =
                  calls[p].riskResult.calculatedAt
                      + DEFAULT_RISK_CONFIG.cacheDurationMinutes * 60 * 1000
            /\ calls[p].riskResult.expiresAt >= calls[p].now

\* a call that returned a snapshot calculated 3 hours earlier, 2 hours after
\* the snapshot's expiresAt
C28_ServedAfterExpiry ==
    \E p \in Callers :
        /\ HasReturned(p)
        /\ calls[p].fromCache
        /\ calls[p].now - calls[p].riskResult.calculatedAt = 3 * 60 * 60 * 1000
        /\ calls[p].now - calls[p].riskResult.expiresAt = 2 * 60 * 60 * 1000


-----------------------------------------------------------------------------
(* Properties of the snapshot round trip *)

\* the result was saved and getCachedRiskSnapshot was called after the save
\* and not after the snapshot's expiresAt
ReadBackBeforeExpiry ==
    /\ Returned
    /\ riskSnapshots # <<>>
    /\ cachedRisk # NotRead
    /\ cachedRisk.at >= riskResult.calculatedAt
    /\ cachedRisk.at <= riskResult.expiresAt
    /\ cachedRisk.result # NullRisk

\* the evaluator keys of a breakdown with their scores
KeyScores(bd) == {<<bd[i].key, bd[i].score>> : i \in DOMAIN bd}

\* C30: a result saved with saveRiskSnapshot and read back with
\* getCachedRiskSnapshot before expiry has the same overallScore, riskBucket,
\* calculatedAt, expiresAt, reweighted flag and missingComponents, and its
\* breakdown has the same evaluator keys with the same scores, the entries
\* with null score included.
C30_SnapshotRoundTrip ==
    ReadBackBeforeExpiry =>
        LET r == riskResult
            c == cachedRisk.result
        IN  /\ c.overallScore = r.overallScore
            /\ c.riskBucket = r.riskBucket
            /\ c.calculatedAt = r.calculatedAt
            /\ c.expiresAt = r.expiresAt
            /\ c.metadata.reweighted = r.metadata.reweighted
            /\ c.metadata.missingComponents = r.metadata.missingComponents
            /\ KeyScores(c.breakdown) = KeyScores(r.breakdown)

\* the result of an active airline, whose asset liquidity has no score, read
\* back: the entry of assetLiquidity is not in the breakdown read
C30_NullEntryDropped ==
    /\ ReadBackBeforeExpiry
    /\ \A k \in SourceKeys : enabled[k]
    /\ <<"assetLiquidity", Null>> \in KeyScores(riskResult.breakdown)
    /\ riskResult.metadata.missingComponents = <<"Fleet & Asset Liquidity (proxy)">>
    /\ cachedRisk.result.metadata.missingComponents = riskResult.metadata.missingComponents
    /\ BreakdownKeys(cachedRisk.result.breakdown) = <<"jurisdiction", "scale", "financial">>

=============================================================================
